---- MODULE Spec2Model ----
(***************************************************************************)
(* A model of synpatico/core: the shape/value codec and its caches.        *)
(*                                                                         *)
(*  - JavaScript values (the data, the shapes and the packets) are records *)
(*    of one layout, so that a shape is the very object the code builds:   *)
(*    a property list holding "type", "_signature" and one entry per data  *)
(*    field, in JavaScript's own-property order.                           *)
(*  - The LRU store (lru-cache) is modelled operation by operation.        *)
(*  - The cache manager's module-level state is the state of Spec.         *)
(*  - SpecCodec drives createShape, encode and decode over that state.     *)
(***************************************************************************)
EXTENDS Integers, Sequences, FiniteSets, TLC

VARIABLES
    cacheConfig,            \* cache-manager: let cacheConfig
    shapeCacheState,        \* cache-manager: let shapeCacheState (an LRU state)
    mapKeyOrderCache,       \* cache-manager: let mapKeyOrderCache (null or a Map)
    mapKeyOrderCacheSize,   \* cache-manager: let mapKeyOrderCacheSize
    GLOBAL_KEY_MAP,         \* the external key registry, in insertion order
    store,                  \* one LRU store driven directly (SpecLRU)
    useOrder,               \* history: the keys of `store`, least recently used first
    last                    \* the last call: its name and outcome, and sizes before it

vars == <<cacheConfig, shapeCacheState, mapKeyOrderCache, mapKeyOrderCacheSize,
          GLOBAL_KEY_MAP, store, useOrder, last>>

-----------------------------------------------------------------------------
(* Bounds of the model.                                                    *)

\* createStructureDefinition is not called once accessCounter reached this.
MaxAccess == 3
\* The registry holds at most this many keys.
MaxRegistry == 2
\* lruSet / lruGet are not called on `store` once its accessCounter reached this.
MaxStoreAccess == 5
\* The most structures one filling loop creates.
MaxFill == 8
\* Construction steps applied to a leaf to make an input value.
MaxSteps == 2
\* The largest timestamp of a Date in SpecRich.
MaxTime == 4

-----------------------------------------------------------------------------
(* Sequence helpers.                                                       *)

Min(a, b) == IF a <= b THEN a ELSE b

Max(a, b) == IF a >= b THEN a ELSE b

Range(s) == {s[i] : i \in 1..Len(s)}

\* The sequences of n pairwise different members of S.
DistinctTuples(S, n) ==
    {t \in [1..n -> S] : \A i, j \in 1..n : i # j => t[i] # t[j]}

\* Array.prototype.slice(0, n) for n >= 0.
Slice0(s, n) == SubSeq(s, 1, Min(Len(s), n))

-----------------------------------------------------------------------------
(* Property names.  Strings have no order in TLA+: KeyOrder lists the      *)
(* names the model uses in ascending UTF-16 code-unit order, the order of  *)
(* Array.prototype.sort() without a comparator.                            *)

KeyOrder ==
    <<"10", "9", "__type", "_signature", "a", "b", "c", "d", "itemShape",
      "itemShapes", "length", "message", "name", "q\"", "stack", "type",
      "value",
      "x", "y", "z">>

KeyRank(k) == CHOOSE i \in 1..Len(KeyOrder) : KeyOrder[i] = k

KeyLess(a, b) == KeyRank(a) < KeyRank(b)

\* The canonical array index a property name denotes, or -1.
ArrayIndexOf(k) == IF k = "9" THEN 9 ELSE IF k = "10" THEN 10 ELSE -1

\* keys.sort(): insertion sort of a sequence of distinct names.
RECURSIVE InsertSorted(_, _)
InsertSorted(k, s) ==
    IF s = <<>> THEN <<k>>
    ELSE IF KeyLess(k, Head(s)) THEN <<k>> \o s
    ELSE <<Head(s)>> \o InsertSorted(k, Tail(s))

RECURSIVE SortKeys(_)
SortKeys(s) == IF s = <<>> THEN <<>> ELSE InsertSorted(Head(s), SortKeys(Tail(s)))

-----------------------------------------------------------------------------
(* JavaScript values.  k is the kind; n a number or a timestamp; s a       *)
(* string; p the own properties of a plain object, in enumeration order;   *)
(* a the elements of an array, Set or Map.                                 *)

JS(kind, num, str, props, items) ==
    [k |-> kind, n |-> num, s |-> str, p |-> props, a |-> items]

Undefined == JS("undefined", 0, "", <<>>, <<>>)
Null == JS("null", 0, "", <<>>, <<>>)
Bool(b) == JS("boolean", IF b THEN 1 ELSE 0, "", <<>>, <<>>)
Num(n) == JS("number", n, "", <<>>, <<>>)
Str(s) == JS("string", 0, s, <<>>, <<>>)
Arr(items) == JS("array", 0, "", <<>>, items)
Obj(props) == JS("object", 0, "", props, <<>>)
DateOf(t) == JS("Date", t, "", <<>>, <<>>)
MapOf(pairs) == JS("Map", 0, "", <<>>, pairs)
SetOf(items) == JS("Set", 0, "", <<>>, items)
\* new Error(message) with name and stack assigned; p holds the two.
ErrorWith(message, name, stack) ==
    JS("Error", 0, message, <<[key |-> "name", val |-> name],
                              [key |-> "stack", val |-> stack]>>, <<>>)
ErrorOf(msg) == ErrorWith(msg, JS("string", 0, "Error", <<>>, <<>>),
                          JS("string", 0, "stack", <<>>, <<>>))

P(key, val) == [key |-> key, val |-> val]

RichKinds == {"Date", "Map", "Set", "Error"}

\* typeof v
TypeOf(v) ==
    IF v.k \in {"undefined", "boolean", "number", "string"} THEN v.k ELSE "object"

\* Object.keys(o)
Keys(o) == [i \in 1..Len(o.p) |-> o.p[i].key]

\* key in o
HasProp(o, key) == \E i \in 1..Len(o.p) : o.p[i].key = key

\* o[key]
Get(o, key) ==
    IF HasProp(o, key)
    THEN o.p[CHOOSE i \in 1..Len(o.p) : o.p[i].key = key].val
    ELSE Undefined

\* o[key] = val: an own property keeps its place; a new array-index name goes
\* among the index names in ascending numeric order, before every other name;
\* any other new name goes last.
SetProp(o, key, val) ==
    IF HasProp(o, key)
    THEN [o EXCEPT !.p = [i \in 1..Len(o.p) |->
                             IF o.p[i].key = key THEN P(key, val) ELSE o.p[i]]]
    ELSE IF ArrayIndexOf(key) >= 0
    THEN LET before == {i \in 1..Len(o.p) :
                           /\ ArrayIndexOf(o.p[i].key) >= 0
                           /\ ArrayIndexOf(o.p[i].key) < ArrayIndexOf(key)}
             n == Cardinality(before)
         IN  [o EXCEPT !.p = SubSeq(o.p, 1, n) \o <<P(key, val)>>
                                \o SubSeq(o.p, n + 1, Len(o.p))]
    ELSE [o EXCEPT !.p = Append(o.p, P(key, val))]

\* An object literal / an object built by assigning the properties in order.
RECURSIVE ObjFrom(_)
ObjFrom(props) ==
    IF props = <<>> THEN Obj(<<>>)
    ELSE LET l == Len(props)
         IN  SetProp(ObjFrom(SubSeq(props, 1, l - 1)), props[l].key, props[l].val)

\* Deep equality as the tests use it (toEqual): property order is ignored,
\* a property holding undefined equals a missing one.
RECURSIVE DeepEqual(_, _)
DeepEqual(x, y) ==
    /\ x.k = y.k
    /\ x.n = y.n
    /\ x.s = y.s
    /\ Len(x.a) = Len(y.a)
    /\ \A i \in 1..Len(x.a) : DeepEqual(x.a[i], y.a[i])
    /\ \A key \in Range(Keys(x)) \cup Range(Keys(y)) :
           DeepEqual(Get(x, key), Get(y, key))

-----------------------------------------------------------------------------
(* lru-cache: the functional LRU store.  state.cache and state.accessOrder *)
(* are Maps; their iteration order is never observable because recency     *)
(* values are pairwise distinct (RecencyDistinct below), so they are        *)
(* functions here.                                                          *)

EmptyMap == [x \in {} |-> 0]

MapSet(m, key, value) ==
    [x \in (DOMAIN m) \cup {key} |-> IF x = key THEN value ELSE m[x]]

MapDelete(m, key) == [x \in (DOMAIN m) \ {key} |-> m[x]]

createLRUCache(maxSize) ==
    [cache |-> EmptyMap, accessOrder |-> EmptyMap, accessCounter |-> 0,
     maxSize |-> maxSize]

\* lruGet returning the state it was given on a hit as well.
lruGetNoBump(state, key) ==
    IF key \notin DOMAIN state.cache
    THEN [found |-> FALSE, value |-> Undefined, newState |-> state]
    ELSE [found |-> TRUE, value |-> state.cache[key], newState |-> state]

\* lruGet: {value, newState}; found is value !== undefined.  The stores of
\* this program hold shapes, never undefined, so state.cache.get(key) is
\* undefined exactly when the key is absent.
lruGet(state, key) ==
    IF key \notin DOMAIN state.cache
    THEN [found |-> FALSE, value |-> Undefined, newState |-> state]
    ELSE [found |-> TRUE,
          value |-> state.cache[key],
          newState |-> [state EXCEPT
                           !.accessOrder = MapSet(state.accessOrder, key,
                                                  state.accessCounter + 1),
                           !.accessCounter = state.accessCounter + 1]]

\* evictLRU dropping the key of the largest access time.
evictNewest(state) ==
    IF DOMAIN state.accessOrder = {} THEN state
    ELSE LET newestKey ==
                 CHOOSE key \in DOMAIN state.accessOrder :
                     \A other \in DOMAIN state.accessOrder :
                         state.accessOrder[key] >= state.accessOrder[other]
         IN  [state EXCEPT !.cache = MapDelete(state.cache, newestKey),
                           !.accessOrder = MapDelete(state.accessOrder, newestKey)]

\* evictLRU: drops the key of the smallest access time; the state itself when
\* accessOrder is empty.
evictLRU(state) ==
    IF DOMAIN state.accessOrder = {} THEN state
    ELSE LET oldestKey ==
                 CHOOSE key \in DOMAIN state.accessOrder :
                     \A other \in DOMAIN state.accessOrder :
                         state.accessOrder[key] <= state.accessOrder[other]
         IN  [state EXCEPT !.cache = MapDelete(state.cache, oldestKey),
                           !.accessOrder = MapDelete(state.accessOrder, oldestKey)]

\* lruSet with the capacity check left out.
lruSetNoEviction(state, key, value) ==
    [returns |-> TRUE,
     state |-> [state EXCEPT
                   !.cache = MapSet(state.cache, key, value),
                   !.accessOrder = MapSet(state.accessOrder, key, state.accessCounter + 1),
                   !.accessCounter = state.accessCounter + 1]]

\* lruSet evicting at capacity before it looks for the key.
lruSetEvictsFirst(state, key, value) ==
    IF Cardinality(DOMAIN state.cache) >= state.maxSize
    THEN lruSetNoEviction(evictLRU(state), key, value)
    ELSE lruSetNoEviction(state, key, value)

\* lruSet.  At capacity it calls itself on evictLRU(state); when evictLRU
\* returns the state it was given, the call repeats with the same arguments
\* and never returns (the engine ends it with a RangeError): returns = FALSE.
RECURSIVE lruSet(_, _, _)
lruSet(state, key, value) ==
    LET newAccessCounter == state.accessCounter + 1
        stored == [state EXCEPT
                      !.cache = MapSet(state.cache, key, value),
                      !.accessOrder = MapSet(state.accessOrder, key, newAccessCounter),
                      !.accessCounter = newAccessCounter]
    IN  IF key \in DOMAIN state.cache
        THEN [returns |-> TRUE, state |-> stored]
        ELSE IF Cardinality(DOMAIN state.cache) >= state.maxSize
        THEN LET evictionResult == evictLRU(state)
             IN  IF evictionResult = state
                 THEN [returns |-> FALSE, state |-> state]
                 ELSE lruSet(evictionResult, key, value)
        ELSE [returns |-> TRUE, state |-> stored]

\* lruClear resetting the counter but keeping the entries.
lruClearCounterOnly(state) == [state EXCEPT !.accessCounter = 0]

\* lruClear emptying the cache and the counter but not the access times.
lruClearKeepsOrder(state) ==
    [state EXCEPT !.cache = EmptyMap, !.accessCounter = 0]

lruClear(state) ==
    [state EXCEPT !.cache = EmptyMap, !.accessOrder = EmptyMap, !.accessCounter = 0]

lruHas(state, key) == key \in DOMAIN state.cache

\* Math.round(x / y * 100) for integers x >= 0, y > 0: halves round up.
RoundPercent(x, y) == (200 * x + y) \div (2 * y)

\* lruGetStats.  size / 0 * 100 is NaN for size 0 and Infinity otherwise;
\* utilization is then NaN or Infinity: nan / inf say which, and
\* utilization holds 0.
lruGetStats(state) ==
    LET size == Cardinality(DOMAIN state.cache)
    IN  [size |-> size,
         maxSize |-> state.maxSize,
         accessCounter |-> state.accessCounter,
         utilization |-> IF state.maxSize = 0 THEN 0
                         ELSE RoundPercent(size, state.maxSize),
         nan |-> state.maxSize = 0 /\ size = 0,
         inf |-> state.maxSize = 0 /\ size > 0]

\* lruGetEntries: the entries sorted by descending access time.
RECURSIVE EntriesOf(_, _)
EntriesOf(state, keys) ==
    IF keys = {} THEN <<>>
    ELSE LET newest == CHOOSE key \in keys :
                           \A other \in keys :
                               state.accessOrder[key] >= state.accessOrder[other]
         IN  <<[key |-> newest, value |-> state.cache[newest],
                access |-> state.accessOrder[newest]]>>
             \o EntriesOf(state, keys \ {newest})

\* lruGetEntries sorted by ascending access time (a.access - b.access).
RECURSIVE EntriesAscending(_, _)
EntriesAscending(state, keys) ==
    IF keys = {} THEN <<>>
    ELSE LET oldest == CHOOSE key \in keys :
                           \A other \in keys :
                               state.accessOrder[key] <= state.accessOrder[other]
         IN  <<[key |-> oldest, value |-> state.cache[oldest],
                access |-> state.accessOrder[oldest]]>>
             \o EntriesAscending(state, keys \ {oldest})

lruGetEntriesAscending(state) == EntriesAscending(state, DOMAIN state.cache)

lruGetEntries(state) == EntriesOf(state, DOMAIN state.cache)

\* lruMigrate: a fresh store, the first maxSize entries set in the given order.
RECURSIVE MigrateInto(_, _)
MigrateInto(r, entries) ==
    IF entries = <<>> \/ ~r.returns THEN r
    ELSE MigrateInto(lruSet(r.state, Head(entries).key, Head(entries).value),
                     Tail(entries))

\* lruMigrate taking the last maxSize entries: entries.slice(-maxSize).
lruMigrateLast(entries, maxSize) ==
    MigrateInto([returns |-> TRUE, state |-> createLRUCache(maxSize)],
                SubSeq(entries, Max(1, Len(entries) - maxSize + 1), Len(entries)))

lruMigrate(entries, maxSize) ==
    MigrateInto([returns |-> TRUE, state |-> createLRUCache(maxSize)],
                Slice0(entries, maxSize))

-----------------------------------------------------------------------------
(* cache-manager: the module-level cache state and its operations.  Each   *)
(* operation maps the manager's state m = [cacheConfig, shapeCacheState,   *)
(* mapKeyOrderCache, mapKeyOrderCacheSize] to the state after the call.    *)

DEFAULT_CACHE_CONFIG ==
    [maxShapeCacheSize |-> 1000, maxKeyOrderCacheSize |-> 500,
     autoEvictionThreshold |-> 80, enableCacheStats |-> FALSE]

\* let mapKeyOrderCache: Map<string, number> | null
NullCache == [null |-> TRUE, map |-> EmptyMap]

CacheOf(map) == [null |-> FALSE, map |-> map]

\* The options not supplied taken from the defaults.
MergeConfigOverDefaults(old, config) ==
    [opt \in (DOMAIN old) \cup (DOMAIN config) |->
        IF opt \in DOMAIN config THEN config[opt] ELSE DEFAULT_CACHE_CONFIG[opt]]

\* { ...cacheConfig, ...config }
MergeConfig(old, config) ==
    [opt \in (DOMAIN old) \cup (DOMAIN config) |->
        IF opt \in DOMAIN config THEN config[opt] ELSE old[opt]]

\* The eviction target rounded up instead of down.
TargetSizeCeiling(maxShapeCacheSize) == (7 * maxShapeCacheSize + 9) \div 10

\* Math.floor(maxShapeCacheSize * 0.7)
TargetSize(maxShapeCacheSize) == (7 * maxShapeCacheSize) \div 10

\* configureProtocolCaching keeping the key order cache whatever the new bound.
configureProtocolCachingKeepsKeys(m, config) ==
    LET merged == MergeConfig(m.cacheConfig, config)
    IN  [cacheConfig |-> merged,
         shapeCacheState |->
            lruMigrate(lruGetEntries(m.shapeCacheState),
                       merged.maxShapeCacheSize).state,
         mapKeyOrderCache |-> m.mapKeyOrderCache,
         mapKeyOrderCacheSize |-> m.mapKeyOrderCacheSize]

\* configureProtocolCaching(config): the lruSet calls of the migration return
\* for every bound >= 0, the slice leaving at most maxSize entries.
configureProtocolCaching(m, config) ==
    LET merged == MergeConfig(m.cacheConfig, config)
        oldEntries == lruGetEntries(m.shapeCacheState)
        migrated == lruMigrate(oldEntries, merged.maxShapeCacheSize)
        dropKeys == /\ ~m.mapKeyOrderCache.null
                    /\ Cardinality(DOMAIN m.mapKeyOrderCache.map)
                           > merged.maxKeyOrderCacheSize
    IN  [cacheConfig |-> merged,
         shapeCacheState |-> migrated.state,
         mapKeyOrderCache |-> IF dropKeys THEN NullCache ELSE m.mapKeyOrderCache,
         mapKeyOrderCacheSize |-> IF dropKeys THEN 0 ELSE m.mapKeyOrderCacheSize]

\* getProtocolCacheStats()
getProtocolCacheStats(m) ==
    [shapeCache |-> lruGetStats(m.shapeCacheState),
     keyOrderCache |->
        [size |-> m.mapKeyOrderCacheSize,
         maxSize |-> m.cacheConfig.maxKeyOrderCacheSize],
     config |-> m.cacheConfig]

\* evictOldCacheEntries forgetting to count the dropped key order entries.
evictOldCacheEntriesShapesOnly(m) ==
    LET shapeCacheStats == lruGetStats(m.shapeCacheState)
        targetSize == TargetSize(m.cacheConfig.maxShapeCacheSize)
        toEvict == shapeCacheStats.size - targetSize
        shrink == /\ ~shapeCacheStats.nan
                  /\ shapeCacheStats.utilization >= m.cacheConfig.autoEvictionThreshold
                  /\ toEvict > 0
        dropKeys == m.mapKeyOrderCacheSize * 100
                       >= m.cacheConfig.maxKeyOrderCacheSize
                              * m.cacheConfig.autoEvictionThreshold
    IN  [m |-> [cacheConfig |-> m.cacheConfig,
                shapeCacheState |->
                    IF shrink
                    THEN lruMigrate(Slice0(lruGetEntries(m.shapeCacheState), targetSize),
                                    m.cacheConfig.maxShapeCacheSize).state
                    ELSE m.shapeCacheState,
                mapKeyOrderCache |-> IF dropKeys THEN NullCache ELSE m.mapKeyOrderCache,
                mapKeyOrderCacheSize |-> IF dropKeys THEN 0 ELSE m.mapKeyOrderCacheSize],
         evicted |-> IF shrink THEN toEvict ELSE 0]

\* evictOldCacheEntries discarding the key order cache whatever its size.
evictOldCacheEntriesDropsKeys(m) ==
    LET shapeCacheStats == lruGetStats(m.shapeCacheState)
        targetSize == TargetSize(m.cacheConfig.maxShapeCacheSize)
        toEvict == shapeCacheStats.size - targetSize
        shrink == /\ ~shapeCacheStats.nan
                  /\ \/ shapeCacheStats.inf
                     \/ shapeCacheStats.utilization
                            >= m.cacheConfig.autoEvictionThreshold
                  /\ toEvict > 0
    IN  [m |-> [cacheConfig |-> m.cacheConfig,
                shapeCacheState |->
                    IF shrink
                    THEN lruMigrate(Slice0(lruGetEntries(m.shapeCacheState), targetSize),
                                    m.cacheConfig.maxShapeCacheSize).state
                    ELSE m.shapeCacheState,
                mapKeyOrderCache |-> NullCache,
                mapKeyOrderCacheSize |-> 0],
         evicted |-> (IF shrink THEN toEvict ELSE 0) + m.mapKeyOrderCacheSize]

\* evictOldCacheEntries(): [m |-> the state after, evicted |-> the count].
\* NaN >= threshold is false, Infinity >= threshold is true.
evictOldCacheEntries(m) ==
    LET shapeCacheStats == lruGetStats(m.shapeCacheState)
        over == /\ ~shapeCacheStats.nan
                /\ \/ shapeCacheStats.inf
                   \/ shapeCacheStats.utilization >= m.cacheConfig.autoEvictionThreshold
        targetSize == TargetSize(m.cacheConfig.maxShapeCacheSize)
        entries == lruGetEntries(m.shapeCacheState)
        toEvict == shapeCacheStats.size - targetSize
        shrink == over /\ toEvict > 0
        keepEntries == Slice0(entries, targetSize)
        dropKeys == m.mapKeyOrderCacheSize * 100
                       >= m.cacheConfig.maxKeyOrderCacheSize
                              * m.cacheConfig.autoEvictionThreshold
    IN  [m |-> [cacheConfig |-> m.cacheConfig,
                shapeCacheState |->
                    IF shrink
                    THEN lruMigrate(keepEntries, m.cacheConfig.maxShapeCacheSize).state
                    ELSE m.shapeCacheState,
                mapKeyOrderCache |-> IF dropKeys THEN NullCache ELSE m.mapKeyOrderCache,
                mapKeyOrderCacheSize |-> IF dropKeys THEN 0 ELSE m.mapKeyOrderCacheSize],
         evicted |-> (IF shrink THEN toEvict ELSE 0)
                     + (IF dropKeys THEN m.mapKeyOrderCacheSize ELSE 0)]

\* resetProtocolState()
resetProtocolState(m) ==
    [cacheConfig |-> m.cacheConfig,
     shapeCacheState |-> lruClear(m.shapeCacheState),
     mapKeyOrderCache |-> NullCache,
     mapKeyOrderCacheSize |-> 0]

\* getShapeFromCache reading the cache without counting the access.
getShapeFromCachePeek(state, signature) == lruGetNoBump(state, signature)

\* getShapeFromCache(signature), on the LRU state: lruGet's result.
getShapeFromCache(state, signature) == lruGet(state, signature)

\* setShapeInCache(signature, shape), on the LRU state: the assignment to
\* shapeCacheState happens only when lruSet returns.
setShapeInCache(state, signature, shape) == lruSet(state, signature, shape)

\* getMapKeyOrder(): the key order cache after the call (also its result).
RECURSIVE RanksOf(_, _)
RanksOf(keys, n) ==
    IF n = 0 THEN EmptyMap ELSE MapSet(RanksOf(keys, n - 1), keys[n], n - 1)

\* getMapKeyOrder rebuilding only an absent cache.
getMapKeyOrderWhenAbsent(m, registry) ==
    LET keysToCache == Min(Len(registry), m.cacheConfig.maxKeyOrderCacheSize)
    IN  IF m.mapKeyOrderCache.null
        THEN [m EXCEPT !.mapKeyOrderCache = CacheOf(RanksOf(registry, keysToCache)),
                       !.mapKeyOrderCacheSize = keysToCache]
        ELSE m

getMapKeyOrder(m, registry) ==
    LET maxSize == m.cacheConfig.maxKeyOrderCacheSize
        shouldRebuild == \/ m.mapKeyOrderCache.null
                         \/ Len(registry) # m.mapKeyOrderCacheSize
                         \/ Len(registry) > maxSize
        keysToCache == Min(Len(registry), maxSize)
    IN  IF shouldRebuild
        THEN [m EXCEPT !.mapKeyOrderCache = CacheOf(RanksOf(registry, keysToCache)),
                       !.mapKeyOrderCacheSize = keysToCache]
        ELSE m

-----------------------------------------------------------------------------
(* shape-operations: createShapeSignature and createShape.  createShape    *)
(* reads and writes the shape cache as it recurses, so it takes the LRU    *)
(* state and gives back [shape, st, returns]: the shape, the LRU state     *)
(* after the call, and whether the call returned (setShapeInCache may not).*)

\* A field signed by its value as well as its kind.
FieldKindWithValue(value) ==
    IF value.k = "number" THEN "number" \o ToString(value.n)
    ELSE IF TypeOf(value) # "object" \/ value.k = "null" THEN TypeOf(value)
    ELSE IF value.k \in RichKinds THEN value.k
    ELSE IF value.k = "array" THEN "array"
    ELSE "object"

\* `${key}:${kind}` of one field.  typeof null is "object".
FieldKind(value) ==
    IF TypeOf(value) # "object" \/ value.k = "null" THEN TypeOf(value)
    ELSE IF value.k \in RichKinds THEN value.k
    ELSE IF value.k = "array" THEN "array"
    ELSE "object"

RECURSIVE JoinSignature(_, _)
JoinSignature(obj, sortedKeys) ==
    IF sortedKeys = <<>> THEN ""
    ELSE LET key == Head(sortedKeys)
             part == key \o ":" \o FieldKind(Get(obj, key))
         IN  IF Len(sortedKeys) = 1 THEN part
             ELSE part \o "|" \o JoinSignature(obj, Tail(sortedKeys))

createShapeSignature(obj) == JoinSignature(obj, SortKeys(Keys(obj)))

\* { type: t }
TypeShape(t) == ObjFrom(<<P("type", Str(t))>>)

RECURSIVE createShapeIn(_, _)
RECURSIVE ShapeItems(_, _)
RECURSIVE ShapeFields(_, _, _, _)

\* In the three operators below an intermediate result is bound as the
\* element of a one-element set, which fixes its value before it is used.

\* obj.map((item) => createShape(item))
ShapeItems(items, st) ==
    IF items = <<>> THEN [shapes |-> <<>>, st |-> st, returns |-> TRUE]
    ELSE CHOOSE result \in
             {IF ~h.returns THEN [shapes |-> <<>>, st |-> h.st, returns |-> FALSE]
              ELSE CHOOSE rest \in
                       {[shapes |-> <<h.shape>> \o t.shapes, st |-> t.st,
                         returns |-> t.returns] :
                            t \in {ShapeItems(Tail(items), h.st)}} : TRUE :
                  h \in {createShapeIn(Head(items), st)}} : TRUE

\* for (const key of sortedKeys) shape[key] = createShape(objRecord[key])
ShapeFields(objRecord, sortedKeys, shape, st) ==
    IF sortedKeys = <<>> THEN [shape |-> shape, st |-> st, returns |-> TRUE]
    ELSE CHOOSE result \in
             {IF ~child.returns
              THEN [shape |-> shape, st |-> child.st, returns |-> FALSE]
              ELSE ShapeFields(objRecord, Tail(sortedKeys),
                               SetProp(shape, Head(sortedKeys), child.shape),
                               child.st) :
                  child \in {createShapeIn(Get(objRecord, Head(sortedKeys)),
                                           st)}} : TRUE

createShapeIn(obj, st) ==
    IF obj.k = "null" THEN [shape |-> TypeShape("null"), st |-> st, returns |-> TRUE]
    ELSE IF TypeOf(obj) # "object"
    THEN [shape |-> TypeShape(TypeOf(obj)), st |-> st, returns |-> TRUE]
    ELSE IF obj.k \in RichKinds
    THEN [shape |-> TypeShape("special_value"), st |-> st, returns |-> TRUE]
    ELSE IF obj.k = "array"
    THEN CHOOSE result \in
             {[shape |-> ObjFrom(<<P("type", Str("array")),
                                   P("itemShapes", Arr(items.shapes))>>),
               st |-> items.st, returns |-> items.returns] :
                  items \in {ShapeItems(obj.a, st)}} : TRUE
    ELSE CHOOSE result \in
             {IF cached.found
              THEN [shape |-> cached.value, st |-> cached.newState,
                    returns |-> TRUE]
              ELSE CHOOSE missed \in
                       {IF ~built.returns THEN built
                        ELSE CHOOSE kept \in
                                 {[shape |-> built.shape,
                                   st |-> IF stored.returns THEN stored.state
                                          ELSE built.st,
                                   returns |-> stored.returns] :
                                      stored \in {setShapeInCache(
                                                      built.st,
                                                      createShapeSignature(obj),
                                                      built.shape)}} : TRUE :
                            built \in {ShapeFields(
                                           obj, SortKeys(Keys(obj)),
                                           ObjFrom(<<P("type", Str("object")),
                                                     P("_signature",
                                                       Str(createShapeSignature(obj)))>>),
                                           cached.newState)}} : TRUE :
                  cached \in {getShapeFromCache(st, createShapeSignature(obj))}} :
                 TRUE

\* createShape(obj) against the manager's shape cache.
createShape(m, obj) ==
    LET r == createShapeIn(obj, m.shapeCacheState)
    IN  [shape |-> r.shape, returns |-> r.returns,
         m |-> [m EXCEPT !.shapeCacheState = r.st]]

\* createShapeSignature(item) as createShapeOptimized calls it on an array
\* element: a Date, Map, Set or Error has no enumerable key and signs as "".
ItemSignature(item) ==
    IF item.k \in RichKinds THEN "" ELSE createShapeSignature(item)

\* typeof item === "object" && item !== null && !Array.isArray(item)
IsObjectItem(item) ==
    TypeOf(item) = "object" /\ item.k \notin {"null", "array"}

\* The test of the first item alone, the loop over the others left out.
IsHomogeneousFirstOnly(obj) == TRUE

\* The loop over obj[1..]: every item is an object item signing as the first.
IsHomogeneous(obj) ==
    \A i \in 2..Len(obj.a) :
        /\ IsObjectItem(obj.a[i])
        /\ ItemSignature(obj.a[i]) = ItemSignature(obj.a[1])

\* The values createShapeOptimized(obj) calls createShape on, in order: obj
\* itself when it is no array; else the first item when it is an object
\* item, followed by every item unless the array is homogeneous.
ShapeCalls(obj) ==
    IF obj.k # "array" THEN <<obj>>
    ELSE IF Len(obj.a) = 0 THEN <<>>
    ELSE IF ~IsObjectItem(obj.a[1]) THEN obj.a
    ELSE IF IsHomogeneous(obj) THEN <<obj.a[1]>>
    ELSE <<obj.a[1]>> \o obj.a

\* createShapeOptimized(obj) against the manager's shape cache.
createShapeOptimized(m, obj) ==
    LET made == ShapeItems(ShapeCalls(obj), m.shapeCacheState)
        probed == Len(obj.a) > 0 /\ IsObjectItem(obj.a[1])
        shape ==
            IF ~made.returns THEN Undefined
            ELSE IF obj.k # "array" THEN made.shapes[1]
            ELSE IF probed /\ IsHomogeneous(obj)
            THEN ObjFrom(<<P("type", Str("homogeneous-array")),
                           P("length", Num(Len(obj.a))),
                           P("itemShape", made.shapes[1]),
                           P("_signature",
                             Str("array[" \o ToString(Len(obj.a)) \o "]:"
                                 \o ItemSignature(obj.a[1])))>>)
            ELSE ObjFrom(<<P("type", Str("array")),
                           P("itemShapes",
                             Arr(IF probed THEN Tail(made.shapes)
                                 ELSE made.shapes))>>)
    IN  [shape |-> shape, returns |-> made.returns,
         m |-> [m EXCEPT !.shapeCacheState = made.st]]

\* createStructureDefinitionOptimized(data)
createStructureDefinitionOptimized(m, data) == createShapeOptimized(m, data)

\* createStructureDefinition(data): { shape: createShape(data), id }.  The id
\* comes from the identity service and is opaque here.
createStructureDefinition(m, data) == createShape(m, data)

-----------------------------------------------------------------------------
(* value-extraction and the rich-type marshalling of index.ts.             *)

RECURSIVE extractValues(_)
RECURSIVE ExtractItems(_)
RECURSIVE ExtractFields(_, _)

\* current.forEach((item) => recurse(item))
ExtractItems(items) ==
    IF items = <<>> THEN <<>>
    ELSE extractValues(Head(items)) \o ExtractItems(Tail(items))

\* for (const key of sortedKeys) recurse(current[key])
ExtractFields(current, sortedKeys) ==
    IF sortedKeys = <<>> THEN <<>>
    ELSE extractValues(Get(current, Head(sortedKeys)))
         \o ExtractFields(current, Tail(sortedKeys))

\* extractValues(data): the leaves, depth first.
extractValues(current) ==
    IF TypeOf(current) # "object" \/ current.k = "null" THEN <<current>>
    ELSE IF current.k \in RichKinds THEN <<current>>
    ELSE IF current.k = "array" THEN ExtractItems(current.a)
    ELSE ExtractFields(current, SortKeys(Keys(current)))

\* A date string that keeps the day and drops the time of day.
IsoStringDateOnly(t) == JS("string", 0, "ISO-8601", <<>>, <<>>)

\* date.toISOString(): the string that new Date(...) parses back to the
\* same millisecond; n carries the millisecond, s marks the format.
IsoString(t) == JS("string", t, "ISO-8601", <<>>, <<>>)

\* { __type: marker, value: payload }
Tagged(marker, payload) ==
    ObjFrom(<<P("__type", Str(marker)), P("value", payload)>>)

RECURSIVE processForSerialization(_)
processForSerialization(obj) ==
    IF obj.k \in {"null", "undefined"} \/ TypeOf(obj) # "object" THEN obj
    ELSE IF obj.k = "Date" THEN Tagged("Date", IsoString(obj.n))
    ELSE IF obj.k = "Map" THEN Tagged("Map", Arr(obj.a))
    ELSE IF obj.k = "Set" THEN Tagged("Set", Arr(obj.a))
    ELSE IF obj.k = "Error"
    THEN Tagged("Error", ObjFrom(<<P("message", Str(obj.s)),
                                   P("name", Get(obj, "name")),
                                   P("stack", Get(obj, "stack"))>>))
    ELSE IF obj.k = "array"
    THEN Arr([i \in 1..Len(obj.a) |-> processForSerialization(obj.a[i])])
    ELSE Obj([i \in 1..Len(obj.p) |->
                 P(obj.p[i].key, processForSerialization(obj.p[i].val))])

\* The tagged object itself, in place of its value.
UnknownMarkerWhole(objRecord) == objRecord

\* default: return objRecord.value
UnknownMarker(objRecord) == Get(objRecord, "value")

RECURSIVE processForDeserialization(_)
processForDeserialization(obj) ==
    IF obj.k \in {"null", "undefined"} \/ TypeOf(obj) # "object" THEN obj
    ELSE IF obj.k = "object" /\ HasProp(obj, "__type")
            /\ Get(obj, "__type").k = "string"
    THEN LET typeMarker == Get(obj, "__type").s
             value == Get(obj, "value")
         IN  IF typeMarker = "Date"
             THEN IF value.k = "string"
                  THEN (IF value.s = "ISO-8601" THEN DateOf(value.n)
                        ELSE JS("Date", -1, "Invalid Date", <<>>, <<>>))
                  ELSE Null
             ELSE IF typeMarker = "Map"
             THEN IF value.k = "array" THEN MapOf(value.a) ELSE MapOf(<<>>)
             ELSE IF typeMarker = "Set"
             THEN IF value.k = "array" THEN SetOf(value.a) ELSE SetOf(<<>>)
             ELSE IF typeMarker = "Error"
             THEN IF TypeOf(value) = "object" /\ value.k # "null"
                  THEN ErrorWith(
                           IF Get(value, "message").k = "string"
                           THEN Get(value, "message").s ELSE "",
                           IF Get(value, "name").k = "string"
                           THEN Get(value, "name") ELSE Str("Error"),
                           IF Get(value, "stack").k = "string"
                           THEN Get(value, "stack") ELSE Str("stack at decode"))
                  ELSE ErrorWith("", Str("Error"), Str("stack at decode"))
             ELSE UnknownMarker(obj)
    ELSE IF obj.k = "array"
    THEN Arr([i \in 1..Len(obj.a) |-> processForDeserialization(obj.a[i])])
    ELSE IF obj.k \in RichKinds THEN Obj(<<>>)
    ELSE Obj([i \in 1..Len(obj.p) |->
                 P(obj.p[i].key, processForDeserialization(obj.p[i].val))])

\* encode(data, structureId): the packet's values.
encode(data) == processForSerialization(Arr(extractValues(data))).a

\* Object.keys(current): a Date, Map, Set or Error has no enumerable own
\* property; an array has its indices.
EnumerableKeys(current) ==
    IF current.k \in RichKinds THEN <<>>
    ELSE IF current.k = "array"
    THEN [i \in 1..Len(current.a) |-> ToString(i - 1)]
    ELSE Keys(current)

\* current[segment], segment a property name.
Member(current, segment) ==
    IF current.k = "array"
    THEN (IF \E i \in 1..Len(current.a) : ToString(i - 1) = segment
          THEN current.a[CHOOSE i \in 1..Len(current.a) :
                             ToString(i - 1) = segment]
          ELSE Undefined)
    ELSE IF current.k \in RichKinds THEN Undefined
    ELSE Get(current, segment)

\* collectPaths(current, path): the paths it pushes, in order.
RECURSIVE collectPaths(_, _)
RECURSIVE CollectEach(_, _, _)
CollectEach(current, keys, path) ==
    IF keys = <<>> THEN <<>>
    ELSE collectPaths(Member(current, Head(keys)), Append(path, Head(keys)))
         \o CollectEach(current, Tail(keys), path)

collectPaths(current, path) ==
    IF TypeOf(current) # "object" \/ current.k = "null" THEN <<path>>
    ELSE IF current.k = "array"
    THEN CollectEach(current, EnumerableKeys(current), path)
    ELSE CollectEach(current, SortKeys(EnumerableKeys(current)), path)

\* createStructureDefinitionWithPaths(data): createShape(data) and the paths.
createStructureDefinitionWithPaths(m, data) ==
    LET r == createShape(m, data)
    IN  [shape |-> r.shape, returns |-> r.returns, m |-> r.m,
         paths |-> collectPaths(data, <<>>)]

\* for (const segment of path) current = current[segment]
RECURSIVE FollowPath(_, _)
FollowPath(current, path) ==
    IF path = <<>> THEN current
    ELSE FollowPath(Member(current, Head(path)), Tail(path))

extractValuesDirectPaths(data, paths) ==
    [i \in 1..Len(paths) |-> FollowPath(data, paths[i])]

\* encodeWithDirectPaths(data, structureId, paths): the packet's values.
encodeWithDirectPaths(data, paths) == extractValuesDirectPaths(data, paths)

-----------------------------------------------------------------------------
(* object-reconstruction.  The three interpreting decoders walk the shape  *)
(* the same way and differ in the layout they give an object node; rebuild *)
(* is that walk, parameterised by the layout.  It gives back the value and *)
(* valueIndex after the walk.                                              *)

RECURSIVE FilterOut(_, _)
FilterOut(keys, excluded) ==
    IF keys = <<>> THEN <<>>
    ELSE (IF Head(keys) \in excluded THEN <<>> ELSE <<Head(keys)>>)
         \o FilterOut(Tail(keys), excluded)

\* currentShape.type === t
IsType(currentShape, t) ==
    Get(currentShape, "type").k = "string" /\ Get(currentShape, "type").s = t

IsLeafShape(currentShape) ==
    /\ ~IsType(currentShape, "object")
    /\ ~IsType(currentShape, "array")
    /\ ~IsType(currentShape, "homogeneous-array")

\* values[valueIndex], undefined past the end.
ValueAt(values, valueIndex) ==
    IF valueIndex < Len(values) THEN values[valueIndex + 1] ELSE Undefined

\* indexA - indexB < 0, where a key the order lacks has index
\* Number.MAX_SAFE_INTEGER, above every rank.
RankBefore(keyOrder, a, b) ==
    /\ a \in DOMAIN keyOrder
    /\ (b \in DOMAIN keyOrder => keyOrder[a] < keyOrder[b])

\* keys.sort((a, b) => indexA - indexB): stable, so ties keep their order.
RECURSIVE InsertByRank(_, _, _)
InsertByRank(sorted, key, keyOrder) ==
    IF sorted = <<>> THEN <<key>>
    ELSE IF RankBefore(keyOrder, key, Head(sorted))
    THEN <<key>> \o sorted
    ELSE <<Head(sorted)>> \o InsertByRank(Tail(sorted), key, keyOrder)

RECURSIVE SortByRank(_, _)
SortByRank(keys, keyOrder) ==
    IF keys = <<>> THEN <<>>
    ELSE InsertByRank(SortByRank(SubSeq(keys, 1, Len(keys) - 1), keyOrder),
                      keys[Len(keys)], keyOrder)

StandardLayout(shapeObj) ==
    SortKeys(FilterOut(Keys(shapeObj), {"type", "_signature"}))

LayoutKeys(shapeObj) ==
    FilterOut(Keys(shapeObj),
              {"type", "_signature", "length", "itemShape", "itemShapes"})

getLayout(shapeObj) == SortKeys(LayoutKeys(shapeObj))

getGenomeLayout(shapeObj, keyOrder) == SortByRank(LayoutKeys(shapeObj), keyOrder)

LayoutFor(mode, shapeObj, keyOrder) ==
    IF mode = "standard" THEN StandardLayout(shapeObj)
    ELSE IF mode = "ultra-fast" THEN getLayout(shapeObj)
    ELSE getGenomeLayout(shapeObj, keyOrder)

RECURSIVE rebuild(_, _, _, _, _)
RECURSIVE RebuildItems(_, _, _, _, _, _)
RECURSIVE RebuildRepeat(_, _, _, _, _, _, _)
RECURSIVE RebuildFields(_, _, _, _, _, _, _)

\* for (i < itemShapes.length) arr[i] = rebuild(itemShapes[i])
RebuildItems(mode, keyOrder, values, itemShapes, arr, valueIndex) ==
    IF itemShapes = <<>> THEN [value |-> Arr(arr), valueIndex |-> valueIndex]
    ELSE CHOOSE result \in
             {RebuildItems(mode, keyOrder, values, Tail(itemShapes),
                           Append(arr, r.value), r.valueIndex) :
                  r \in {rebuild(mode, keyOrder, values, Head(itemShapes),
                                 valueIndex)}} : TRUE

\* for (i < length) arr[i] = rebuild(itemShape)
RebuildRepeat(mode, keyOrder, values, itemShape, length, arr, valueIndex) ==
    IF Len(arr) >= length THEN [value |-> Arr(arr), valueIndex |-> valueIndex]
    ELSE CHOOSE result \in
             {RebuildRepeat(mode, keyOrder, values, itemShape, length,
                            Append(arr, r.value), r.valueIndex) :
                  r \in {rebuild(mode, keyOrder, values, itemShape,
                                 valueIndex)}} : TRUE

\* for (key of layout) obj[key] = rebuild(currentShape[key])
RebuildFields(mode, keyOrder, values, currentShape, layout, obj, valueIndex) ==
    IF layout = <<>> THEN [value |-> obj, valueIndex |-> valueIndex]
    ELSE CHOOSE result \in
             {RebuildFields(mode, keyOrder, values, currentShape, Tail(layout),
                            SetProp(obj, Head(layout), r.value), r.valueIndex) :
                  r \in {rebuild(mode, keyOrder, values,
                                 Get(currentShape, Head(layout)),
                                 valueIndex)}} : TRUE

rebuild(mode, keyOrder, values, currentShape, valueIndex) ==
    IF IsLeafShape(currentShape)
    THEN [value |-> ValueAt(values, valueIndex), valueIndex |-> valueIndex + 1]
    ELSE IF IsType(currentShape, "array")
    THEN RebuildItems(mode, keyOrder, values,
                      Get(currentShape, "itemShapes").a, <<>>, valueIndex)
    ELSE IF IsType(currentShape, "homogeneous-array")
    THEN RebuildRepeat(mode, keyOrder, values, Get(currentShape, "itemShape"),
                       Get(currentShape, "length").n, <<>>, valueIndex)
    ELSE RebuildFields(mode, keyOrder, values, currentShape,
                       LayoutFor(mode, currentShape, keyOrder), Obj(<<>>),
                       valueIndex)

reconstructObject(values, shape) ==
    rebuild("standard", EmptyMap, values, shape, 0).value

reconstructObjectFast(values, shape) ==
    rebuild("ultra-fast", EmptyMap, values, shape, 0).value

\* The leaves a walk of the shape consumes: valueIndex when it returns.
LeavesConsumed(shape) == rebuild("standard", EmptyMap, <<>>, shape, 0).valueIndex

\* Whether the walk lays out an object node, i.e. calls getMapKeyOrder().
RECURSIVE LaysOutObject(_)
LaysOutObject(currentShape) ==
    IF IsLeafShape(currentShape) THEN FALSE
    ELSE IF IsType(currentShape, "array")
    THEN \E i \in 1..Len(Get(currentShape, "itemShapes").a) :
             LaysOutObject(Get(currentShape, "itemShapes").a[i])
    ELSE IF IsType(currentShape, "homogeneous-array")
    THEN \/ IsType(Get(currentShape, "itemShape"), "object")
         \/ /\ Get(currentShape, "length").n > 0
            /\ LaysOutObject(Get(currentShape, "itemShape"))
    ELSE TRUE

\* reconstructObjectGenome reads the key order through getMapKeyOrder(),
\* which may rebuild the key order cache: [value, m].
reconstructObjectGenome(m, registry, values, shape) ==
    LET after == getMapKeyOrder(m, registry)
    IN  [value |-> rebuild("genome", after.mapKeyOrderCache.map, values,
                           shape, 0).value,
         m |-> IF LaysOutObject(shape) THEN after ELSE m]

\* reconstructObjectOptimized: its recurse knows the types "object" and
\* "array" only; every other node is read as one value.
RECURSIVE recurse(_, _, _)
RECURSIVE RecurseItems(_, _, _, _)
RECURSIVE RecurseFields(_, _, _, _, _)

RecurseItems(values, itemShapes, arr, valueIndex) ==
    IF itemShapes = <<>> THEN [value |-> Arr(arr), valueIndex |-> valueIndex]
    ELSE CHOOSE result \in
             {RecurseItems(values, Tail(itemShapes), Append(arr, r.value),
                           r.valueIndex) :
                  r \in {recurse(values, Head(itemShapes), valueIndex)}} : TRUE

RecurseFields(values, currentShape, sortedKeys, obj, valueIndex) ==
    IF sortedKeys = <<>> THEN [value |-> obj, valueIndex |-> valueIndex]
    ELSE CHOOSE result \in
             {RecurseFields(values, currentShape, Tail(sortedKeys),
                            SetProp(obj, Head(sortedKeys), r.value),
                            r.valueIndex) :
                  r \in {recurse(values, Get(currentShape, Head(sortedKeys)),
                                 valueIndex)}} : TRUE

recurse(values, currentShape, valueIndex) ==
    IF ~IsType(currentShape, "object") /\ ~IsType(currentShape, "array")
    THEN [value |-> ValueAt(values, valueIndex), valueIndex |-> valueIndex + 1]
    ELSE IF IsType(currentShape, "array")
    THEN RecurseItems(values, Get(currentShape, "itemShapes").a, <<>>,
                      valueIndex)
    ELSE RecurseFields(values, currentShape, StandardLayout(currentShape),
                       Obj(<<>>), valueIndex)

reconstructObjectOptimized(values, shape) == recurse(values, shape, 0).value

-----------------------------------------------------------------------------
(* reconstructObjectCompiled.  The generated routine is straight-line code *)
(* over access paths rooted at `result`; every loop it emits declares the  *)
(* same variable i, so an [i] in a path reads the innermost loop in scope  *)
(* at the statement.  A path is a sequence of accessors: a quoted key, a   *)
(* literal index, or the loop variable.  Running the routine is modelled   *)
(* by executing those statements on [result, valueIndex, threw].  The keys *)
(* of the model need no escaping inside the quotes of ["key"].             *)

KeyAccess(key) == [t |-> "key", key |-> key, ix |-> 0]
IndexAccess(i) == [t |-> "index", key |-> "", ix |-> i]
LoopAccess == [t |-> "i", key |-> "", ix |-> 0]

\* The path with every [i] read at the loop value in scope.
ResolvePath(path, i) ==
    [n \in 1..Len(path) |-> IF path[n].t = "i" THEN IndexAccess(i) ELSE path[n]]

\* new Array(length): length holes, which read as undefined.
NewArray(length) == Arr([n \in 1..length |-> Undefined])

\* target[access] = value on an object or an array.
StoreAt(target, access, value) ==
    IF target.k = "array" /\ access.t = "index"
    THEN Arr([n \in 1..Max(Len(target.a), access.ix + 1) |->
                 IF n = access.ix + 1 THEN value
                 ELSE IF n <= Len(target.a) THEN target.a[n] ELSE Undefined])
    ELSE SetProp(target, IF access.t = "index" THEN ToString(access.ix)
                         ELSE access.key, value)

\* target[access] read.
LoadAt(target, access) ==
    IF target.k = "array" /\ access.t = "index"
    THEN (IF access.ix < Len(target.a) THEN target.a[access.ix + 1]
          ELSE Undefined)
    ELSE Get(target, IF access.t = "index" THEN ToString(access.ix)
                     ELSE access.key)

\* path = value: [ok, root]; reading a property of undefined or null on the
\* way is a TypeError.
RECURSIVE AssignAt(_, _, _)
AssignAt(root, path, value) ==
    IF path = <<>> THEN [ok |-> TRUE, root |-> value]
    ELSE IF root.k \in {"undefined", "null"} THEN [ok |-> FALSE, root |-> root]
    ELSE IF Len(path) = 1
    THEN [ok |-> TRUE, root |-> StoreAt(root, path[1], value)]
    ELSE LET inner == AssignAt(LoadAt(root, path[1]), Tail(path), value)
         IN  [ok |-> inner.ok,
              root |-> IF inner.ok THEN StoreAt(root, path[1], inner.root)
                       ELSE root]

Assign(st, path, i, value) ==
    IF st.threw THEN st
    ELSE LET r == AssignAt(st.result, ResolvePath(path, i), value)
         IN  [st EXCEPT !.result = r.root, !.threw = ~r.ok]

RECURSIVE generateRebuilder(_, _, _, _, _)
RECURSIVE RunItems(_, _, _, _, _, _)
RECURSIVE RunFields(_, _, _, _, _, _)
RECURSIVE RunLoop(_, _, _, _, _, _)

\* generateRebuilder(itemShapes[n], `${path}[${n}]`) for each n
RunItems(values, itemShapes, n, path, i, st) ==
    IF n >= Len(itemShapes) THEN st
    ELSE CHOOSE result \in
             {RunItems(values, itemShapes, n + 1, path, i, next) :
                  next \in {generateRebuilder(values, itemShapes[n + 1],
                                              Append(path, IndexAccess(n)), i,
                                              st)}} : TRUE

\* generateRebuilder(currentShape[key], `${path}["${key}"]`) for each key
RunFields(values, currentShape, layout, path, i, st) ==
    IF layout = <<>> THEN st
    ELSE CHOOSE result \in
             {RunFields(values, currentShape, Tail(layout), path, i, next) :
                  next \in {generateRebuilder(
                                values, Get(currentShape, Head(layout)),
                                Append(path, KeyAccess(Head(layout))), i,
                                st)}} : TRUE

\* for (let i = 0; i < length; i++) { ... }
RunLoop(values, itemShape, length, path, i, st) ==
    IF i >= length \/ st.threw THEN st
    ELSE CHOOSE result \in
             {RunLoop(values, itemShape, length, path, i + 1, body) :
                  body \in {IF IsType(itemShape, "object")
                            THEN CHOOSE fields \in
                                     {RunFields(values, itemShape,
                                                StandardLayout(itemShape),
                                                Append(path, LoopAccess), i,
                                                made) :
                                          made \in {Assign(st,
                                                           Append(path, LoopAccess),
                                                           i, Obj(<<>>))}} : TRUE
                            ELSE generateRebuilder(values, itemShape,
                                                   Append(path, LoopAccess), i,
                                                   st)}} : TRUE

\* The statements generateRebuilder(currentShape, path) emits, executed
\* with the loop variable in scope equal to i.
generateRebuilder(values, currentShape, path, i, st) ==
    IF st.threw THEN st
    ELSE IF IsLeafShape(currentShape)
    THEN [Assign(st, path, i, ValueAt(values, st.valueIndex))
              EXCEPT !.valueIndex = st.valueIndex + 1]
    ELSE IF IsType(currentShape, "homogeneous-array")
    THEN CHOOSE result \in
             {RunLoop(values, Get(currentShape, "itemShape"),
                      Get(currentShape, "length").n, path, 0, made) :
                  made \in {Assign(st, path, i,
                                   NewArray(Get(currentShape, "length").n))}} :
                 TRUE
    ELSE IF IsType(currentShape, "array")
    THEN CHOOSE result \in
             {RunItems(values, Get(currentShape, "itemShapes").a, 0, path, i,
                       made) :
                  made \in {Assign(st, path, i,
                                   NewArray(Len(Get(currentShape,
                                                    "itemShapes").a)))}} : TRUE
    ELSE CHOOSE result \in
             {RunFields(values, currentShape, StandardLayout(currentShape),
                        path, i, made) :
                  made \in {Assign(st, path, i, Obj(<<>>))}} : TRUE

\* The names of the model that cannot stand unescaped between the double
\* quotes of ["${key}"]: new Function(...) raises a SyntaxError on them.
BreaksQuoting == {"q\""}

\* The keys generateRebuilder(currentShape) writes into the code.
RECURSIVE GeneratedKeys(_)
GeneratedKeys(currentShape) ==
    IF IsLeafShape(currentShape) THEN {}
    ELSE IF IsType(currentShape, "homogeneous-array")
    THEN GeneratedKeys(Get(currentShape, "itemShape"))
    ELSE IF IsType(currentShape, "array")
    THEN UNION {GeneratedKeys(Get(currentShape, "itemShapes").a[n]) :
                   n \in 1..Len(Get(currentShape, "itemShapes").a)}
    ELSE Range(StandardLayout(currentShape))
         \cup UNION {GeneratedKeys(Get(currentShape, key)) :
                        key \in Range(StandardLayout(currentShape))}

\* compiledFn(values): the state the generated routine stops in.
RunCompiled(values, shape) ==
    generateRebuilder(values, shape, <<>>, 0,
                      [result |-> Undefined, valueIndex |-> 0, threw |-> FALSE])

\* Whether the try block raises: compiling the text or running it.
CompiledRaises(values, shape) ==
    \/ GeneratedKeys(shape) \cap BreaksQuoting # {}
    \/ RunCompiled(values, shape).threw

\* The routine's result handed out whether or not the try block raised.
reconstructObjectCompiledUnguarded(values, shape) ==
    RunCompiled(values, shape).result

\* try { return compiledFn(values) } catch (_) { return reconstructObjectFast }
reconstructObjectCompiled(values, shape) ==
    IF CompiledRaises(values, shape) THEN reconstructObjectFast(values, shape)
    ELSE RunCompiled(values, shape).result

-----------------------------------------------------------------------------
(* Strategy selection and decode (index.ts).                               *)

NoStats == [complexity |-> 0, depth |-> 0, arrayCount |-> 0,
            homogeneousArrays |-> 0, totalArrayItems |-> 0, objectCount |-> 0]

AddStats(s, t) ==
    [complexity |-> s.complexity + t.complexity,
     depth |-> Max(s.depth, t.depth),
     arrayCount |-> s.arrayCount + t.arrayCount,
     homogeneousArrays |-> s.homogeneousArrays + t.homogeneousArrays,
     totalArrayItems |-> s.totalArrayItems + t.totalArrayItems,
     objectCount |-> s.objectCount + t.objectCount]

\* analyze(currentShape, currentDepth): the counters it adds.  complexity is
\* kept in tenths, so that length * 0.1 stays an integer.
RECURSIVE analyze(_, _)
RECURSIVE AnalyzeAll(_, _)
AnalyzeAll(shapes, currentDepth) ==
    IF shapes = <<>> THEN NoStats
    ELSE AddStats(analyze(Head(shapes), currentDepth),
                  AnalyzeAll(Tail(shapes), currentDepth))

analyze(currentShape, currentDepth) ==
    LET here == [NoStats EXCEPT !.depth = currentDepth]
    IN  IF IsType(currentShape, "object")
        THEN LET keys == FilterOut(Keys(currentShape), {"type", "_signature"})
             IN  AddStats([here EXCEPT !.objectCount = 1,
                                       !.complexity = 10 * Len(keys)],
                          AnalyzeAll([n \in 1..Len(keys) |->
                                         Get(currentShape, keys[n])],
                                     currentDepth + 1))
        ELSE IF IsType(currentShape, "array")
        THEN LET itemShapes == Get(currentShape, "itemShapes").a
             IN  AddStats([here EXCEPT !.arrayCount = 1,
                                       !.complexity = 10 * Len(itemShapes),
                                       !.totalArrayItems = Len(itemShapes)],
                          AnalyzeAll(itemShapes, currentDepth + 1))
        ELSE IF IsType(currentShape, "homogeneous-array")
        THEN LET length == Get(currentShape, "length").n
             IN  AddStats([here EXCEPT !.arrayCount = 1,
                                       !.homogeneousArrays = 1,
                                       !.totalArrayItems = length,
                                       !.complexity = length],
                          analyze(Get(currentShape, "itemShape"),
                                  currentDepth + 1))
        ELSE here

\* The selector without the rule for large homogeneous arrays.
analyzeDecodeStrategyNoHomogeneousRule(shape, valuesLength, registry) ==
    LET s == analyze(shape, 0)
        hasGenomeData == Len(registry) > 0
    IN  IF /\ s.complexity <= 50 /\ s.depth <= 2 /\ s.arrayCount = 0
           /\ valuesLength <= 20
        THEN "standard"
        ELSE IF hasGenomeData /\ s.objectCount > 0 /\ s.complexity > 30
        THEN "genome"
        ELSE IF s.depth > 2 \/ (s.arrayCount > 0 /\ s.objectCount > 3)
        THEN "ultra-fast"
        ELSE IF s.objectCount > 2 /\ s.complexity > 80
        THEN "ultra-fast"
        ELSE IF valuesLength > 1000 /\ s.homogeneousArrays > 0
        THEN "compiled"
        ELSE "standard"

\* The selector with the genome rule tried before the small-structure rule.
analyzeDecodeStrategyGenomeFirst(shape, valuesLength, registry) ==
    LET s == analyze(shape, 0)
        hasGenomeData == Len(registry) > 0
    IN  IF hasGenomeData /\ s.objectCount > 0 /\ s.complexity > 30
        THEN "genome"
        ELSE IF /\ s.complexity <= 50 /\ s.depth <= 2 /\ s.arrayCount = 0
                /\ valuesLength <= 20
        THEN "standard"
        ELSE IF s.homogeneousArrays > 0 /\ s.totalArrayItems > 10
        THEN "ultra-fast"
        ELSE IF s.depth > 2 \/ (s.arrayCount > 0 /\ s.objectCount > 3)
        THEN "ultra-fast"
        ELSE IF s.objectCount > 2 /\ s.complexity > 80
        THEN "ultra-fast"
        ELSE IF valuesLength > 1000 /\ s.homogeneousArrays > 0
        THEN "compiled"
        ELSE "standard"

analyzeDecodeStrategy(shape, valuesLength, registry) ==
    LET s == analyze(shape, 0)
        hasGenomeData == Len(registry) > 0
    IN  IF /\ s.complexity <= 50 /\ s.depth <= 2 /\ s.arrayCount = 0
           /\ valuesLength <= 20
        THEN "standard"
        ELSE IF hasGenomeData /\ s.objectCount > 0 /\ s.complexity > 30
        THEN "genome"
        ELSE IF s.homogeneousArrays > 0 /\ s.totalArrayItems > 10
        THEN "ultra-fast"
        ELSE IF s.depth > 2 \/ (s.arrayCount > 0 /\ s.objectCount > 3)
        THEN "ultra-fast"
        ELSE IF s.objectCount > 2 /\ s.complexity > 80
        THEN "ultra-fast"
        ELSE IF valuesLength > 1000 /\ s.homogeneousArrays > 0
        THEN "compiled"
        ELSE "standard"

\* decode(packet, structureDef): [value, m], m being the cache manager after
\* the call (the genome strategy may rebuild the key order cache).
decode(m, registry, values, shape) ==
    LET strategy == analyzeDecodeStrategy(shape, Len(values), registry)
        genome == reconstructObjectGenome(m, registry, values, shape)
        reconstructed ==
            IF strategy = "standard" THEN reconstructObject(values, shape)
            ELSE IF strategy = "genome" THEN genome.value
            ELSE IF strategy = "ultra-fast"
            THEN reconstructObjectFast(values, shape)
            ELSE reconstructObjectCompiled(values, shape)
    IN  [value |-> processForDeserialization(reconstructed),
         m |-> IF strategy = "genome" THEN genome.m ELSE m]

-----------------------------------------------------------------------------
(* Inputs.                                                                 *)

FlatA == ObjFrom(<<P("a", Num(1))>>)
FlatB == ObjFrom(<<P("b", Num(2))>>)
FlatC == ObjFrom(<<P("c", Num(3))>>)
FlatD == ObjFrom(<<P("d", Num(4))>>)
NullA == ObjFrom(<<P("a", Null)>>)
NestedAX == ObjFrom(<<P("a", ObjFrom(<<P("x", Num(1))>>))>>)

\* { [`key${i}`]: i }
KeyedObject(i) == ObjFrom(<<P("key" \o ToString(i), Num(i))>>)

\* The values createStructureDefinition is called with in Spec.
CacheSamples == {FlatA, FlatB, FlatC, NestedAX}

\* The options configureProtocolCaching is called with in Spec.
ShapeSizes == {0, 1, 2, 3}
KeySizes == {1}
Thresholds == {50}

Configs ==
    {[maxShapeCacheSize |-> n] : n \in ShapeSizes}
    \cup {[autoEvictionThreshold |-> t] : t \in Thresholds}
    \cup {[maxKeyOrderCacheSize |-> k] : k \in KeySizes}

\* The options configureProtocolCaching is called with in SpecFill.
FillConfigs ==
    {[maxShapeCacheSize |-> n] : n \in {2, 3, 10}}
    \cup {[autoEvictionThreshold |-> t] : t \in {70, 100}}
    \cup {[maxShapeCacheSize |-> 10, autoEvictionThreshold |-> 70]}

\* The keys the identity service registers.
RegistryKeys == {"a", "b"}

-----------------------------------------------------------------------------
(* Spec: the cache manager, driven through the exported functions.         *)

Manager ==
    [cacheConfig |-> cacheConfig, shapeCacheState |-> shapeCacheState,
     mapKeyOrderCache |-> mapKeyOrderCache,
     mapKeyOrderCacheSize |-> mapKeyOrderCacheSize]

SetManager(m) ==
    /\ cacheConfig' = m.cacheConfig
    /\ shapeCacheState' = m.shapeCacheState
    /\ mapKeyOrderCache' = m.mapKeyOrderCache
    /\ mapKeyOrderCacheSize' = m.mapKeyOrderCacheSize

ShapeCacheSize == Cardinality(DOMAIN shapeCacheState.cache)

\* What `last` records of the state before a call.
Before == [keys |-> DOMAIN shapeCacheState.cache, keySize |-> mapKeyOrderCacheSize]

Call(op, ret, returns) ==
    [op |-> op, arg |-> 0, ret |-> ret, returns |-> returns, before |-> Before]

Init ==
    /\ cacheConfig = DEFAULT_CACHE_CONFIG
    /\ shapeCacheState = createLRUCache(DEFAULT_CACHE_CONFIG.maxShapeCacheSize)
    /\ mapKeyOrderCache = NullCache
    /\ mapKeyOrderCacheSize = 0
    /\ GLOBAL_KEY_MAP = <<>>
    /\ store = createLRUCache(0)
    /\ useOrder = <<>>
    /\ last = [op |-> "init", arg |-> 0, ret |-> 0, returns |-> TRUE,
               before |-> [keys |-> {}, keySize |-> 0]]

CreateStructureDefinition(data) ==
    /\ shapeCacheState.accessCounter < MaxAccess
    /\ LET r == createStructureDefinition(Manager, data)
       IN  /\ SetManager(r.m)
           /\ last' = Call("create", 0, r.returns)
    /\ UNCHANGED <<GLOBAL_KEY_MAP, store, useOrder>>

\* for (let i = 0; i < n; i++) createStructureDefinition({ [`key${i}`]: i }),
\* run on an unused shape cache.
RECURSIVE FillFrom(_, _, _)
FillFrom(r, i, n) ==
    IF i >= n \/ ~r.returns THEN r
    ELSE FillFrom(createStructureDefinition(r.m, KeyedObject(i)), i + 1, n)

FillShapeCache(n) ==
    /\ shapeCacheState.accessCounter = 0
    /\ LET r == FillFrom([shape |-> Undefined, returns |-> TRUE, m |-> Manager], 0, n)
       IN  /\ SetManager(r.m)
           /\ last' = Call("fill", n, r.returns)
    /\ UNCHANGED <<GLOBAL_KEY_MAP, store, useOrder>>

ConfigureProtocolCaching(config) ==
    /\ SetManager(configureProtocolCaching(Manager, config))
    /\ last' = [Call("configure", 0, TRUE) EXCEPT !.arg = config]
    /\ UNCHANGED <<GLOBAL_KEY_MAP, store, useOrder>>

EvictOldCacheEntries ==
    /\ LET r == evictOldCacheEntries(Manager)
       IN  /\ SetManager(r.m)
           /\ last' = Call("evict", r.evicted, TRUE)
    /\ UNCHANGED <<GLOBAL_KEY_MAP, store, useOrder>>

ResetProtocolState ==
    /\ SetManager(resetProtocolState(Manager))
    /\ last' = Call("reset", 0, TRUE)
    /\ UNCHANGED <<GLOBAL_KEY_MAP, store, useOrder>>

\* The identity service registers a key it has not seen.
RegisterKey(key) ==
    /\ Len(GLOBAL_KEY_MAP) < MaxRegistry
    /\ key \notin Range(GLOBAL_KEY_MAP)
    /\ GLOBAL_KEY_MAP' = Append(GLOBAL_KEY_MAP, key)
    /\ last' = Call("register", 0, TRUE)
    /\ UNCHANGED <<cacheConfig, shapeCacheState, mapKeyOrderCache,
                   mapKeyOrderCacheSize, store, useOrder>>

\* An externally-ordered reconstruction lays out an object: getMapKeyOrder().
GetMapKeyOrder ==
    /\ SetManager(getMapKeyOrder(Manager, GLOBAL_KEY_MAP))
    /\ last' = Call("keyOrder", 0, TRUE)
    /\ UNCHANGED <<GLOBAL_KEY_MAP, store, useOrder>>

Next ==
    \/ \E data \in CacheSamples : CreateStructureDefinition(data)
    \/ \E config \in Configs : ConfigureProtocolCaching(config)
    \/ EvictOldCacheEntries
    \/ ResetProtocolState
    \/ \E key \in RegistryKeys : RegisterKey(key)
    \/ GetMapKeyOrder

Spec == Init /\ [][Next]_vars

-----------------------------------------------------------------------------
(* SpecFill: the shape cache filled by a loop of createStructureDefinition *)
(* calls, as the cache tests fill it, then reconfigured and evicted.        *)

FillNext ==
    \/ \E n \in 1..MaxFill : FillShapeCache(n)
    \/ \E i \in 0..2 : CreateStructureDefinition(KeyedObject(i))
    \/ \E config \in FillConfigs : ConfigureProtocolCaching(config)
    \/ EvictOldCacheEntries
    \/ ResetProtocolState

SpecFill == Init /\ [][FillNext]_vars

-----------------------------------------------------------------------------
(* SpecLRU: one LRU store driven by lruSet and lruGet.  SpecMigrate adds   *)
(* lruMigrate(lruGetEntries(store), n).  useOrder is a history variable:   *)
(* the cached keys, the least recently set or read first.                  *)

StoreKeys == {"A", "B", "C"}
StoreValues == {1, 2}
StoreSizes == {1, 2}

StoreCall(op, arg, ret, returns) ==
    [op |-> op, arg |-> arg, ret |-> ret, returns |-> returns,
     before |-> [keys |-> DOMAIN store.cache, keySize |-> 0]]

\* The keys of `order` that are in `keep`, in the same order.
RECURSIVE Retained(_, _)
Retained(order, keep) ==
    IF order = <<>> THEN <<>>
    ELSE (IF Head(order) \in keep THEN <<Head(order)>> ELSE <<>>)
         \o Retained(Tail(order), keep)

InitLRU ==
    /\ cacheConfig = DEFAULT_CACHE_CONFIG
    /\ shapeCacheState = createLRUCache(DEFAULT_CACHE_CONFIG.maxShapeCacheSize)
    /\ mapKeyOrderCache = NullCache
    /\ mapKeyOrderCacheSize = 0
    /\ GLOBAL_KEY_MAP = <<>>
    /\ store \in {createLRUCache(n) : n \in StoreSizes}
    /\ useOrder = <<>>
    /\ last = [op |-> "init", arg |-> 0, ret |-> 0, returns |-> TRUE,
               before |-> [keys |-> {}, keySize |-> 0]]

ManagerUnchanged ==
    UNCHANGED <<cacheConfig, shapeCacheState, mapKeyOrderCache,
                mapKeyOrderCacheSize, GLOBAL_KEY_MAP>>

LruSet(key, value) ==
    /\ store.accessCounter < MaxStoreAccess
    /\ LET r == lruSet(store, key, value)
       IN  /\ store' = r.state
           /\ useOrder' = IF r.returns
                           THEN Append(Retained(useOrder,
                                                (DOMAIN r.state.cache) \ {key}), key)
                           ELSE useOrder
           /\ last' = StoreCall("lruSet", key, value, r.returns)
    /\ ManagerUnchanged

LruGet(key) ==
    /\ store.accessCounter < MaxStoreAccess
    /\ LET r == lruGet(store, key)
       IN  /\ store' = r.newState
           /\ useOrder' = IF r.found
                           THEN Append(Retained(useOrder, (DOMAIN store.cache) \ {key}),
                                       key)
                           ELSE useOrder
           /\ last' = StoreCall("lruGet", key, IF r.found THEN r.value ELSE 0, TRUE)
    /\ ManagerUnchanged

LruMigrate(maxSize) ==
    /\ LET r == lruMigrate(lruGetEntries(store), maxSize)
       IN  /\ store' = r.state
           /\ useOrder' = Retained(useOrder, DOMAIN r.state.cache)
           /\ last' = StoreCall("lruMigrate", maxSize, 0, r.returns)
    /\ ManagerUnchanged

NextLRU ==
    \/ \E key \in StoreKeys, value \in StoreValues : LruSet(key, value)
    \/ \E key \in StoreKeys : LruGet(key)

SpecLRU == InitLRU /\ [][NextLRU]_vars

NextMigrate ==
    \/ \E key \in StoreKeys, value \in StoreValues : LruSet(key, value)
    \/ \E key \in StoreKeys : LruGet(key)
    \/ \E maxSize \in StoreSizes : LruMigrate(maxSize)

SpecMigrate == InitLRU /\ [][NextMigrate]_vars

\* No two keys of an LRU state share an access time.
Distinct(state) ==
    \A k1, k2 \in DOMAIN state.accessOrder :
        k1 # k2 => state.accessOrder[k1] # state.accessOrder[k2]

RecencyDistinct ==
    /\ Distinct(shapeCacheState)
    /\ Distinct(store)
    /\ DOMAIN shapeCacheState.accessOrder = DOMAIN shapeCacheState.cache
    /\ DOMAIN store.accessOrder = DOMAIN store.cache

-----------------------------------------------------------------------------
(* SpecCodec: values encoded and decoded against the module-level caches,  *)
(* under the default configuration.  createShape calls warm the shape      *)
(* cache; a round trip is createStructureDefinition(v), encode(v, id) and  *)
(* decode of the two; a decode alone pairs one value's shape with another  *)
(* value's packet.                                                         *)

NestedAYZ == ObjFrom(<<P("a", ObjFrom(<<P("y", Num(2)), P("z", Num(3))>>))>>)
PairXY == ObjFrom(<<P("x", Num(1)), P("y", Num(2))>>)
ListOfPairs == Arr(<<PairXY, ObjFrom(<<P("x", Num(3)), P("y", Num(4))>>)>>)
RichLeaves ==
    ObjFrom(<<P("a", DateOf(5)),
              P("b", MapOf(<<Arr(<<Str("k"), Num(1)>>)>>)),
              P("c", SetOf(<<Num(1), Num(2)>>)),
              P("d", ErrorOf("boom"))>>)

CodecSamples == {FlatA, NullA, NestedAX, NestedAYZ, PairXY, ListOfPairs,
                 RichLeaves}

\* <<v, w>>: w's packet decoded with v's shape.
DecodePairs == {<<PairXY, FlatA>>, <<FlatA, PairXY>>, <<PairXY, PairXY>>,
                <<NestedAX, ListOfPairs>>}

CodecKeys == {"x", "y"}

CodecCall(op, arg, ret, returns) ==
    [op |-> op, arg |-> arg, ret |-> ret, returns |-> returns,
     before |-> Before]

CreateShape(obj) ==
    /\ shapeCacheState.accessCounter < MaxAccess
    /\ LET r == createShape(Manager, obj)
       IN  /\ SetManager(r.m)
           /\ last' = CodecCall("createShape", obj, r.shape, r.returns)
    /\ UNCHANGED <<GLOBAL_KEY_MAP, store, useOrder>>

RoundTrip(v) ==
    /\ shapeCacheState.accessCounter < MaxAccess
    /\ LET structureDef == createStructureDefinition(Manager, v)
           values == encode(v)
           decoded == decode(structureDef.m, GLOBAL_KEY_MAP, values,
                             structureDef.shape)
       IN  /\ SetManager(decoded.m)
           /\ last' = CodecCall("roundTrip", v, decoded.value,
                                structureDef.returns)
    /\ UNCHANGED <<GLOBAL_KEY_MAP, store, useOrder>>

\* decode(encode(w, id), createStructureDefinition(v)); decode has no throw
\* of its own, so it returns whenever createStructureDefinition has.
Decode(v, w) ==
    /\ shapeCacheState.accessCounter < MaxAccess
    /\ LET structureDef == createStructureDefinition(Manager, v)
           values == encode(w)
           decoded == decode(structureDef.m, GLOBAL_KEY_MAP, values,
                             structureDef.shape)
       IN  /\ SetManager(decoded.m)
           /\ last' = CodecCall("decode",
                                [values |-> values, shape |-> structureDef.shape],
                                decoded.value, structureDef.returns)
    /\ UNCHANGED <<GLOBAL_KEY_MAP, store, useOrder>>

RegisterCodecKey(key) ==
    /\ Len(GLOBAL_KEY_MAP) < MaxRegistry
    /\ key \notin Range(GLOBAL_KEY_MAP)
    /\ GLOBAL_KEY_MAP' = Append(GLOBAL_KEY_MAP, key)
    /\ last' = CodecCall("register", 0, 0, TRUE)
    /\ UNCHANGED <<cacheConfig, shapeCacheState, mapKeyOrderCache,
                   mapKeyOrderCacheSize, store, useOrder>>

NextCodec ==
    \/ \E obj \in CodecSamples : CreateShape(obj)
    \/ \E v \in CodecSamples : RoundTrip(v)
    \/ \E pair \in DecodePairs : Decode(pair[1], pair[2])
    \/ \E key \in CodecKeys : RegisterCodecKey(key)

SpecCodec == Init /\ [][NextCodec]_vars

-----------------------------------------------------------------------------
(* SpecDecoders: the five reconstruction routines applied to shape trees,  *)
(* each with one value per leaf slot, in every state of the key registry   *)
(* and of the key order cache.                                             *)

LeafShape == TypeShape("number")

\* { type: "object", _signature, ...fields }
ObjectShape(signature, fields) ==
    ObjFrom(<<P("type", Str("object")), P("_signature", Str(signature))>>
            \o fields)

\* { type: "array", itemShapes }
ArrayShape(itemShapes) ==
    ObjFrom(<<P("type", Str("array")), P("itemShapes", Arr(itemShapes))>>)

\* { type: "homogeneous-array", length, itemShape, _signature }
HomogeneousShape(length, itemShape, signature) ==
    ObjFrom(<<P("type", Str("homogeneous-array")), P("length", Num(length)),
              P("itemShape", itemShape), P("_signature", Str(signature))>>)

ShapeXY == ObjectShape("x:number|y:number",
                       <<P("x", LeafShape), P("y", LeafShape)>>)
ShapeAX == ObjectShape("a:object",
                       <<P("a", ObjectShape("x:number", <<P("x", LeafShape)>>))>>)
ShapeList == ArrayShape(<<ShapeXY, LeafShape>>)
ShapeRows == HomogeneousShape(2, ShapeXY, "array[2]:x:number|y:number")
ShapeLength == ObjectShape("length:number|x:number",
                           <<P("length", LeafShape), P("x", LeafShape)>>)
ShapeItemShape == ObjectShape("itemShape:number|x:number",
                              <<P("itemShape", LeafShape), P("x", LeafShape)>>)
\* rows of { x: [ { y } ] }: a homogeneous array inside a homogeneous array
ShapeInner(n) ==
    HomogeneousShape(n, ObjectShape("y:number", <<P("y", LeafShape)>>),
                     "array:y:number")
ShapeGrid(rows, cols) ==
    HomogeneousShape(rows,
                     ObjectShape("x:array", <<P("x", ShapeInner(cols))>>),
                     "array:x:array")

ShapeQuote == ObjectShape("q\":number", <<P("q\"", LeafShape)>>)

\* createShape({ "9": 1, "10": 2 }): the fields assigned in sorted order,
\* "10" then "9", and enumerated as integer keys, "9" then "10".
ShapeDigits == ObjectShape("10:number|9:number",
                           <<P("10", LeafShape), P("9", LeafShape)>>)

DecoderShapes == {ShapeXY, ShapeAX, ShapeList, ShapeRows, ShapeLength,
                  ShapeItemShape, ShapeGrid(2, 1), ShapeGrid(1, 2), ShapeQuote,
                  ShapeDigits}

Decoders == {"standard", "optimized", "ultra-fast", "genome", "compiled"}

\* One value per leaf slot, all different.
ValuesFor(shape) == [i \in 1..LeavesConsumed(shape) |-> Num(i)]

Reconstruct(decoder, shape) ==
    LET values == ValuesFor(shape)
        genome == reconstructObjectGenome(Manager, GLOBAL_KEY_MAP, values, shape)
        value == IF decoder = "standard" THEN reconstructObject(values, shape)
                 ELSE IF decoder = "optimized"
                 THEN reconstructObjectOptimized(values, shape)
                 ELSE IF decoder = "ultra-fast"
                 THEN reconstructObjectFast(values, shape)
                 ELSE IF decoder = "genome" THEN genome.value
                 ELSE reconstructObjectCompiled(values, shape)
    IN  /\ SetManager(IF decoder = "genome" THEN genome.m ELSE Manager)
        /\ last' = CodecCall(decoder, [values |-> values, shape |-> shape],
                             value, TRUE)
        /\ UNCHANGED <<GLOBAL_KEY_MAP, store, useOrder>>

ShapeFlat3 == ObjectShape("a:number|b:number|c:number",
                          <<P("a", LeafShape), P("b", LeafShape),
                            P("c", LeafShape)>>)
ShapeFlat4 == ObjectShape("a:number|b:number|c:number|d:number",
                          <<P("a", LeafShape), P("b", LeafShape),
                            P("c", LeafShape), P("d", LeafShape)>>)
ShapeDeep == ObjectShape("a:object", <<P("a", ShapeAX)>>)
ShapeWide == ObjectShape("a:object|b:object|c:object",
                         <<P("a", ShapeXY), P("b", ShapeXY), P("c", ShapeXY)>>)
Shape50Rows == HomogeneousShape(50, ShapeXY, "array[50]:x:number|y:number")
ShapeTwoNumbers == HomogeneousShape(2, LeafShape, "array[2]:")

StrategyShapes == {ShapeFlat3, ShapeFlat4, ShapeDeep, ShapeWide, Shape50Rows,
                   ShapeTwoNumbers, ShapeList, ShapeRows, ShapeXY}

\* packet.values.length: the leaves of the shape, or a longer packet.
ValueLengths(shape) == {LeavesConsumed(shape), 21, 1001}

\* analyzeDecodeStrategy(shape, valuesLength) as decode calls it.
SelectStrategy(shape, valuesLength) ==
    /\ last' = CodecCall("select",
                         [shape |-> shape, valuesLength |-> valuesLength],
                         analyzeDecodeStrategy(shape, valuesLength,
                                               GLOBAL_KEY_MAP),
                         TRUE)
    /\ UNCHANGED <<cacheConfig, shapeCacheState, mapKeyOrderCache,
                   mapKeyOrderCacheSize, GLOBAL_KEY_MAP, store, useOrder>>

NextDecoders ==
    \/ \E decoder \in Decoders, shape \in DecoderShapes :
           Reconstruct(decoder, shape)
    \/ \E shape \in StrategyShapes :
           \E valuesLength \in ValueLengths(shape) :
               SelectStrategy(shape, valuesLength)
    \/ \E key \in CodecKeys : RegisterCodecKey(key)

SpecDecoders == Init /\ [][NextDecoders]_vars

-----------------------------------------------------------------------------
(* SpecValues: values grown from leaves by wrapping and extending, then    *)
(* handed to the two extractions.  The value under construction is         *)
(* last.arg and last.ret counts the construction steps taken; the          *)
(* extraction is made once, on an unused shape cache.                      *)

Leaves == {Num(1), Str("s"), Null, Undefined, DateOf(5),
           MapOf(<<Arr(<<Str("k"), Num(1)>>)>>), SetOf(<<Num(1)>>),
           ErrorOf("boom"), Obj(<<>>), Arr(<<>>)}

\* The values a construction starts from.
Seeds == Leaves \cup {FlatA, NullA, PairXY, NestedAX, ListOfPairs}

\* The values a construction adds.
Fillers == {Num(2), Null, DateOf(7), Obj(<<>>)}

Building == last.op = "value" /\ shapeCacheState.accessCounter = 0

Built(value, steps) ==
    /\ last' = CodecCall("value", value, steps, TRUE)
    /\ UNCHANGED <<cacheConfig, shapeCacheState, mapKeyOrderCache,
                   mapKeyOrderCacheSize, GLOBAL_KEY_MAP, store, useOrder>>

StartValue(leaf) ==
    /\ last.op = "init"
    /\ Built(leaf, 0)

\* { a: value }
WrapField ==
    /\ Building /\ last.ret < MaxSteps
    /\ Built(ObjFrom(<<P("a", last.arg)>>), last.ret + 1)

\* value.b = filler
AddField(leaf) ==
    /\ Building /\ last.ret < MaxSteps
    /\ last.arg.k = "object" /\ ~HasProp(last.arg, "b")
    /\ Built(SetProp(last.arg, "b", leaf), last.ret + 1)

\* [value]
WrapArray ==
    /\ Building /\ last.ret < MaxSteps
    /\ Built(Arr(<<last.arg>>), last.ret + 1)

\* value.push(leaf)
PushItem(leaf) ==
    /\ Building /\ last.ret < MaxSteps
    /\ last.arg.k = "array"
    /\ Built(Arr(Append(last.arg.a, leaf)), last.ret + 1)

\* value.push({ a: filler })
PushWrapped(leaf) ==
    /\ Building /\ last.ret < MaxSteps
    /\ last.arg.k = "array"
    /\ Built(Arr(Append(last.arg.a, ObjFrom(<<P("a", leaf)>>))), last.ret + 1)

\* value.push(a copy of value[0])
PushSibling ==
    /\ Building /\ last.ret < MaxSteps
    /\ last.arg.k = "array" /\ Len(last.arg.a) > 0
    /\ Built(Arr(Append(last.arg.a, last.arg.a[1])), last.ret + 1)

\* createStructureDefinitionOptimized(v), encode(v, id), decode of the two.
RoundTripOptimized ==
    /\ Building
    /\ last.arg.k \in {"object", "array"}
    /\ \E structureDef \in {createStructureDefinitionOptimized(Manager, last.arg)} :
       \E values \in {encode(last.arg)} :
       \E decoded \in {decode(structureDef.m, GLOBAL_KEY_MAP, values,
                              structureDef.shape)} :
           /\ SetManager(decoded.m)
           /\ last' = CodecCall("roundTripOptimized", last.arg, decoded.value,
                                structureDef.returns)
    /\ UNCHANGED <<GLOBAL_KEY_MAP, store, useOrder>>

\* createShapeOptimized(v), then createShape(v).
ShapeBothWays ==
    /\ Building
    /\ last.arg.k = "array"
    /\ \E optimized \in {createShapeOptimized(Manager, last.arg)} :
       \E baseline \in {createShape(optimized.m, last.arg)} :
           /\ SetManager(baseline.m)
           /\ last' = CodecCall("shapes", last.arg,
                                [optimized |-> optimized.shape,
                                 baseline |-> baseline.shape],
                                optimized.returns /\ baseline.returns)
    /\ UNCHANGED <<GLOBAL_KEY_MAP, store, useOrder>>

\* createShapeOptimized(v)
ShapeOptimized ==
    /\ Building
    /\ last.arg.k \in {"object", "array"}
    /\ \E optimized \in {createShapeOptimized(Manager, last.arg)} :
           /\ SetManager(optimized.m)
           /\ last' = CodecCall("shapeOptimized", last.arg, optimized.shape,
                                optimized.returns)
    /\ UNCHANGED <<GLOBAL_KEY_MAP, store, useOrder>>

\* createStructureDefinitionWithPaths(v), then both extractions and both
\* encodings of v.
ExtractBothWays ==
    /\ Building
    /\ last.arg.k \in {"object", "array"}
    /\ LET v == last.arg
           structureDef == createStructureDefinitionWithPaths(Manager, v)
       IN  /\ SetManager(structureDef.m)
           /\ last' = CodecCall("extract", v,
                  [direct |-> extractValuesDirectPaths(v, structureDef.paths),
                   traversal |-> extractValues(v),
                   withPaths |-> encodeWithDirectPaths(v, structureDef.paths),
                   plain |-> encode(v)],
                  structureDef.returns)
    /\ UNCHANGED <<GLOBAL_KEY_MAP, store, useOrder>>

NextValues ==
    \/ \E seed \in Seeds : StartValue(seed)
    \/ WrapField
    \/ \E leaf \in Fillers : AddField(leaf)
    \/ WrapArray
    \/ \E leaf \in Fillers : PushItem(leaf)
    \/ \E leaf \in Fillers : PushWrapped(leaf)
    \/ PushSibling
    \/ ExtractBothWays
    \/ RoundTripOptimized
    \/ ShapeBothWays
    \/ ShapeOptimized

SpecValues == Init /\ [][NextValues]_vars

-----------------------------------------------------------------------------
(* SpecReuse: createShape called on one object and then on a second, in    *)
(* shape caches of several bounds that earlier calls have filled, evicted  *)
(* and reset.                                                              *)

\* The pairs of objects createShape is called on in SpecReuse.
ReusePairs ==
    {<<FlatA, ObjFrom(<<P("a", Num(2))>>)>>,
     <<NestedAX, NestedAYZ>>,
     <<PairXY, ObjFrom(<<P("x", Num(3)), P("y", Num(4))>>)>>,
     <<Obj(<<>>), Obj(<<>>)>>,
     <<FlatA, NestedAX>>,
     <<FlatA, FlatB>>}

\* createShape(first); createShape(second): the two shapes, and the size of
\* the shape cache after each call.
CreateShapeTwice(pair) ==
    /\ shapeCacheState.accessCounter < MaxAccess
    /\ \E first \in {createShape(Manager, pair[1])} :
       \E second \in {IF first.returns THEN createShape(first.m, pair[2])
                      ELSE first} :
           /\ SetManager(second.m)
           /\ last' = CodecCall(
                  "createShapeTwice", pair,
                  [first |-> first.shape, second |-> second.shape,
                   sizeBetween |->
                       Cardinality(DOMAIN first.m.shapeCacheState.cache),
                   sizeAfter |->
                       Cardinality(DOMAIN second.m.shapeCacheState.cache)],
                  first.returns /\ second.returns)
    /\ UNCHANGED <<GLOBAL_KEY_MAP, store, useOrder>>

NextReuse ==
    \/ \E pair \in ReusePairs : CreateShapeTwice(pair)
    \/ \E data \in CacheSamples : CreateStructureDefinition(data)
    \/ \E config \in Configs : ConfigureProtocolCaching(config)
    \/ EvictOldCacheEntries
    \/ ResetProtocolState

SpecReuse == Init /\ [][NextReuse]_vars

-----------------------------------------------------------------------------
(* Properties of the cache manager (Spec, SpecFill).                       *)

\* The number of entries of the key order cache itself.
KeyOrderEntries ==
    IF mapKeyOrderCache.null THEN 0 ELSE Cardinality(DOMAIN mapKeyOrderCache.map)

\* The keys of an LRU state that `kept` must be to be its n most recent ones.
MostRecent(state, kept, n) ==
    /\ kept \subseteq DOMAIN state.cache
    /\ Cardinality(kept) = Min(Cardinality(DOMAIN state.cache), n)
    /\ \A k \in kept : \A j \in (DOMAIN state.cache) \ kept :
           state.accessOrder[k] > state.accessOrder[j]

\* C2: in every state reached through createStructureDefinition,
\* configureProtocolCaching, evictOldCacheEntries and resetProtocolState the
\* shape cache holds at most cacheConfig.maxShapeCacheSize entries, and the
\* store's own bound is the configured one.
C2_ShapeCacheBound ==
    /\ ShapeCacheSize <= cacheConfig.maxShapeCacheSize
    /\ shapeCacheState.maxSize = cacheConfig.maxShapeCacheSize

\* A create call on a full cache that brought in a new signature.
C2_Witness ==
    /\ last.op = "create"
    /\ cacheConfig.maxShapeCacheSize = 2
    /\ Cardinality(last.before.keys) = 2
    /\ ShapeCacheSize = 2
    /\ DOMAIN shapeCacheState.cache # last.before.keys

\* C5 (as claimed): with maxShapeCacheSize = 0 configureProtocolCaching and
\* createStructureDefinition on a plain object return normally and the cache
\* stays empty.
C5_ZeroBoundReturns ==
    (cacheConfig.maxShapeCacheSize = 0 /\ last.op \in {"configure", "create"})
        => (last.returns /\ ShapeCacheSize = 0)

\* C7: a configureProtocolCaching call that leaves maxShapeCacheSize = N >= 1
\* leaves exactly the min(previous size, N) entries of the highest recency,
\* each with the shape it had, in a store of maxSize N.
C7_ConfigureKeepsMostRecent ==
    [][(last'.op = "configure" /\ cacheConfig'.maxShapeCacheSize >= 1) =>
          /\ MostRecent(shapeCacheState, DOMAIN shapeCacheState'.cache,
                        cacheConfig'.maxShapeCacheSize)
          /\ \A k \in DOMAIN shapeCacheState'.cache :
                 shapeCacheState'.cache[k] = shapeCacheState.cache[k]
          /\ shapeCacheState'.maxSize = cacheConfig'.maxShapeCacheSize
          /\ lruGetStats(shapeCacheState').maxSize = cacheConfig'.maxShapeCacheSize]_vars

\* A configure call that cut three entries down to two.
C7_Witness ==
    /\ last.op = "configure"
    /\ Cardinality(last.before.keys) = 3
    /\ cacheConfig.maxShapeCacheSize = 2
    /\ ShapeCacheSize = 2

\* Math.round(size / maxShapeCacheSize * 100) >= autoEvictionThreshold, for a
\* bound >= 1, stated without rounding: size / max * 100 + 1/2 >= threshold.
AtThreshold ==
    /\ cacheConfig.maxShapeCacheSize >= 1
    /\ 200 * ShapeCacheSize + cacheConfig.maxShapeCacheSize
          >= 2 * cacheConfig.maxShapeCacheSize * cacheConfig.autoEvictionThreshold

C9_EvictedCountExact ==
    [][last'.op = "evict" =>
          /\ last'.ret = (ShapeCacheSize - Cardinality(DOMAIN shapeCacheState'.cache))
                           + (mapKeyOrderCacheSize - mapKeyOrderCacheSize')
          /\ last'.ret = (ShapeCacheSize - Cardinality(DOMAIN shapeCacheState'.cache))
                           + (KeyOrderEntries - KeyOrderEntries')]_vars

\* An eviction that removed entries of both caches.
C9_Witness ==
    /\ last.op = "evict"
    /\ Cardinality(last.before.keys) > ShapeCacheSize
    /\ last.before.keySize > 0
    /\ mapKeyOrderCacheSize = 0
    /\ last.ret >= 2

\* C10: after resetProtocolState the statistics report size 0 for both
\* caches, the configuration and shapeCache.maxSize are unchanged, and a
\* second reset changes nothing.
C10_ResetEmptiesBoth ==
    [][last'.op = "reset" =>
          /\ getProtocolCacheStats(Manager').shapeCache.size = 0
          /\ getProtocolCacheStats(Manager').keyOrderCache.size = 0
          /\ KeyOrderEntries' = 0
          /\ cacheConfig' = cacheConfig
          /\ getProtocolCacheStats(Manager').shapeCache.maxSize
                 = getProtocolCacheStats(Manager).shapeCache.maxSize
          /\ resetProtocolState(Manager') = Manager']_vars

\* A reset of two non-empty caches.
C10_Witness ==
    /\ last.op = "reset"
    /\ last.before.keys # {}
    /\ last.before.keySize > 0
    /\ ShapeCacheSize = 0
    /\ mapKeyOrderCacheSize = 0

-----------------------------------------------------------------------------
(* Properties of the LRU store (SpecLRU, SpecMigrate).                     *)

\* C3: an lruSet of an absent key on a full store removes exactly the key
\* whose latest lruSet or lruGet hit is the oldest, keeps every other entry
\* with its value, and stores the new one.
C3_EvictsLeastRecentlyUsed ==
    [][(/\ last'.op = "lruSet"
        /\ last'.arg \notin DOMAIN store.cache
        /\ Cardinality(DOMAIN store.cache) >= store.maxSize) =>
          /\ last'.returns
          /\ DOMAIN store'.cache
                 = ((DOMAIN store.cache) \ {Head(useOrder)}) \cup {last'.arg}
          /\ \A k \in (DOMAIN store.cache) \ {Head(useOrder)} :
                 store'.cache[k] = store.cache[k]
          /\ store'.cache[last'.arg] = last'.ret]_vars

\* maxSize 2: set A, set B, get A, set C leaves A and C.
C3_Witness ==
    /\ last.op = "lruSet"
    /\ last.arg = "C"
    /\ store.maxSize = 2
    /\ last.before.keys = {"A", "B"}
    /\ useOrder = <<"A", "C">>
    /\ DOMAIN store.cache = {"A", "C"}

\* C4 (as claimed): the recency values of a store order its keys as their
\* use does, also after lruMigrate(lruGetEntries(s), n): of two retained
\* keys the one used more recently has the larger recency value.
C4_RecencyFollowsUse ==
    \A i, j \in 1..Len(useOrder) :
        i < j => store.accessOrder[useOrder[i]] < store.accessOrder[useOrder[j]]

-----------------------------------------------------------------------------
(* Properties of the codec (SpecCodec).                                    *)

\* C1: a round trip with the baseline shape gives back a value deeply equal
\* to the one encoded, whatever createShape calls came before.
C1_RoundTripIdentity ==
    last.op = "roundTrip" => last.returns /\ DeepEqual(last.ret, last.arg)

\* C6: a decode whose shape consumes a number of leaves different from the
\* number of values supplied signals an error instead of returning a value.
C6_LengthMismatchSurfaced ==
    (/\ last.op = "decode"
     /\ LeavesConsumed(last.arg.shape) # Len(last.arg.values))
        => ~last.returns

-----------------------------------------------------------------------------
(* Properties of the reconstruction routines (SpecDecoders).               *)

\* What reconstructObject gives for the arguments of the last call.
BaselineOfLast == reconstructObject(last.arg.values, last.arg.shape)

\* C11: whatever the key registry and the key order cache hold,
\* reconstructObjectGenome returns a value deeply equal to reconstructObject's.
C11_GenomeEqualsBaseline ==
    last.op = "genome" => DeepEqual(last.ret, BaselineOfLast)

\* C12: for a well-formed shape tree, whatever its field names,
\* reconstructObjectFast returns a value deeply equal to reconstructObject's.
C12_FastEqualsBaseline ==
    last.op = "ultra-fast" => DeepEqual(last.ret, BaselineOfLast)

\* C13: reconstructObjectOptimized returns a value deeply equal to
\* reconstructObject's, also for a shape with a homogeneous-array node.
C13_OptimizedEqualsBaseline ==
    last.op = "optimized" => DeepEqual(last.ret, BaselineOfLast)

\* C14: when compiling or running the specialized routine raises an error,
\* reconstructObjectCompiled still returns, and returns exactly what
\* reconstructObjectFast returns for the same values and shape.
C14_CompiledFallsBack ==
    (/\ last.op = "compiled"
     /\ CompiledRaises(last.arg.values, last.arg.shape))
        => /\ last.returns
           /\ last.ret = reconstructObjectFast(last.arg.values, last.arg.shape)

\* The routine for rows of { x: [ {y}, {y} ] } reads result[1] before any
\* second row exists (TypeError), and the caller has the fallback's value.
C14_Witness ==
    /\ last.op = "compiled"
    /\ last.arg.shape = ShapeGrid(1, 2)
    /\ RunCompiled(last.arg.values, last.arg.shape).threw
    /\ last.ret = Arr(<<ObjFrom(<<P("x", Arr(<<ObjFrom(<<P("y", Num(1))>>),
                                             ObjFrom(<<P("y", Num(2))>>)>>))>>)>>)

-----------------------------------------------------------------------------
(* Properties of the extractions (SpecValues).                             *)

\* C15: extraction along the paths of createStructureDefinitionWithPaths
\* equals extraction by traversal, element for element, and encoding with
\* the paths carries the same values as encoding without them.
C15_PathsEqualTraversal ==
    last.op = "extract" =>
        /\ last.ret.direct = last.ret.traversal
        /\ last.ret.withPaths = last.ret.plain

-----------------------------------------------------------------------------
(* Properties of the strategy selector (SpecDecoders).  The measures of a  *)
(* shape are restated here over the list of its nodes, each with its       *)
(* nesting depth, and the rule list over the measures.                     *)

RECURSIVE NodesOf(_, _)
RECURSIVE NodesOfAll(_, _)
NodesOfAll(shapes, depth) ==
    IF shapes = <<>> THEN <<>>
    ELSE NodesOf(Head(shapes), depth) \o NodesOfAll(Tail(shapes), depth)

FieldNames(node) == FilterOut(Keys(node), {"type", "_signature"})

NodesOf(node, depth) ==
    <<[node |-> node, depth |-> depth]>>
    \o (IF IsType(node, "object")
        THEN NodesOfAll([i \in 1..Len(FieldNames(node)) |->
                            Get(node, FieldNames(node)[i])], depth + 1)
        ELSE IF IsType(node, "array")
        THEN NodesOfAll(Get(node, "itemShapes").a, depth + 1)
        ELSE IF IsType(node, "homogeneous-array")
        THEN NodesOf(Get(node, "itemShape"), depth + 1)
        ELSE <<>>)

RECURSIVE SumSeq(_)
SumSeq(numbers) ==
    IF numbers = <<>> THEN 0 ELSE Head(numbers) + SumSeq(Tail(numbers))

CountNodes(nodes, t) ==
    Cardinality({i \in 1..Len(nodes) : IsType(nodes[i].node, t)})

\* Ten times the complexity a node adds: its field count, its item count,
\* or a tenth of its length.
ComplexityTenths(node) ==
    IF IsType(node, "object") THEN 10 * Len(FieldNames(node))
    ELSE IF IsType(node, "array") THEN 10 * Len(Get(node, "itemShapes").a)
    ELSE IF IsType(node, "homogeneous-array") THEN Get(node, "length").n
    ELSE 0

ArrayItems(node) ==
    IF IsType(node, "array") THEN Len(Get(node, "itemShapes").a)
    ELSE IF IsType(node, "homogeneous-array") THEN Get(node, "length").n
    ELSE 0

Measures(shape) ==
    LET nodes == NodesOf(shape, 0)
    IN  [complexityTenths |->
             SumSeq([i \in 1..Len(nodes) |-> ComplexityTenths(nodes[i].node)]),
         depth |-> CHOOSE d \in {nodes[i].depth : i \in 1..Len(nodes)} :
                       \A i \in 1..Len(nodes) : nodes[i].depth <= d,
         array_count |-> CountNodes(nodes, "array")
                             + CountNodes(nodes, "homogeneous-array"),
         homogeneous_count |-> CountNodes(nodes, "homogeneous-array"),
         total_array_items |->
             SumSeq([i \in 1..Len(nodes) |-> ArrayItems(nodes[i].node)]),
         object_count |-> CountNodes(nodes, "object")]

\* The strategy of the first rule that matches, rules 1 to 7.
RuleList(m, values_len, has_external_ordering) ==
    CASE /\ m.complexityTenths <= 50 /\ m.depth <= 2 /\ m.array_count = 0
         /\ values_len <= 20 -> "standard"
      [] OTHER ->
    CASE has_external_ordering /\ m.object_count > 0
         /\ m.complexityTenths > 30 -> "genome"
      [] OTHER ->
    CASE m.homogeneous_count > 0 /\ m.total_array_items > 10 -> "ultra-fast"
      [] OTHER ->
    CASE m.depth > 2 \/ (m.array_count > 0 /\ m.object_count > 3) -> "ultra-fast"
      [] OTHER ->
    CASE m.object_count > 2 /\ m.complexityTenths > 80 -> "ultra-fast"
      [] OTHER ->
    CASE values_len > 1000 /\ m.homogeneous_count > 0 -> "compiled"
      [] OTHER -> "standard"

SelectedFlat3 ==
    last.op = "select" /\ last.arg.shape = ShapeFlat3 /\ last.arg.valuesLength = 3
Selected50Rows == last.op = "select" /\ last.arg.shape = Shape50Rows

C18_OptimizedRoundTrip ==
    last.op = "roundTripOptimized" =>
        last.returns /\ DeepEqual(last.ret, last.arg)

\* The array is non-empty and its elements are all non-null, non-array
\* objects with one common shallow signature.
AllAlike(v) ==
    /\ Len(v.a) > 0
    /\ \A i \in 1..Len(v.a) :
           /\ TypeOf(v.a[i]) = "object"
           /\ v.a[i].k # "null" /\ v.a[i].k # "array"
           /\ \A j \in 1..Len(v.a) :
                  ItemSignature(v.a[i]) = ItemSignature(v.a[j])

\* An array node with one item shape per element of v.
PerElement(shape, v) ==
    /\ IsType(shape, "array")
    /\ ~HasProp(shape, "itemShape")
    /\ Len(Get(shape, "itemShapes").a) = Len(v.a)

\* C20: on an array of alike objects createShapeOptimized returns a
\* homogeneous-array node whose length is the array's length and which has a
\* single itemShape; on every other array it returns an array node with one
\* shape per element, the node createShape returns; createShape returns an
\* array node with one shape per element on every array.
C20_HomogeneousDetection ==
    last.op = "shapes" =>
        /\ last.returns
        /\ PerElement(last.ret.baseline, last.arg)
        /\ IF AllAlike(last.arg)
           THEN /\ IsType(last.ret.optimized, "homogeneous-array")
                /\ Get(last.ret.optimized, "length") = Num(Len(last.arg.a))
                /\ HasProp(last.ret.optimized, "itemShape")
                /\ ~HasProp(last.ret.optimized, "itemShapes")
                /\ Get(last.ret.optimized, "itemShape")
                       = Get(last.ret.baseline, "itemShapes").a[1]
           ELSE /\ PerElement(last.ret.optimized, last.arg)
                /\ last.ret.optimized = last.ret.baseline

C20_Witness ==
    /\ last.op = "shapes"
    /\ Len(last.arg.a) = 2
    /\ last.arg.a[1] = PairXY /\ last.arg.a[2] = PairXY
    /\ IsType(last.ret.optimized, "homogeneous-array")
    /\ Get(last.ret.optimized, "length") = Num(2)
    /\ Len(Get(last.ret.baseline, "itemShapes").a) = 2

-----------------------------------------------------------------------------
(* SpecShapes: createShape on plain objects of one and two fields, the     *)
(* field names including those a shape node uses itself, in both insertion *)
(* orders, on a shape cache that earlier calls may have filled.            *)

\* Field names: two ordinary ones, the names a shape node has, and two
\* array-index names.
Names == {"a", "b", "type", "_signature", "length", "itemShape",
          "itemShapes", "9", "10"}

OneField ==
    {ObjFrom(<<P(name, val)>>) :
         name \in Names,
         val \in {Num(1), Str("s"), ObjFrom(<<P("x", Num(1))>>)}}

TwoFields ==
    {ObjFrom(<<P(names[1], val), P(names[2], Num(2))>>) :
         names \in DistinctTuples(Names, 2),
         val \in {Str("s"), ObjFrom(<<P("y", Num(2)), P("z", Num(3))>>)}}

ShapeSamples == OneField \cup TwoFields \cup {ListOfPairs, RichLeaves}

\* The values of the calls that come first.
WarmSamples == {NestedAX, FlatA, ObjFrom(<<P("type", Str("user"))>>)}

\* A value of the same structure and leaf kinds with other leaf values.
RECURSIVE Revalue(_)
Revalue(v) ==
    IF v.k = "number" THEN Num(v.n + 5)
    ELSE IF v.k = "string" THEN Str("other")
    ELSE IF v.k = "boolean" THEN Bool(v.n = 0)
    ELSE IF v.k = "Date" THEN DateOf(v.n + 1)
    ELSE IF v.k = "Map" THEN MapOf(<<>>)
    ELSE IF v.k = "Set" THEN SetOf(<<Str("other")>>)
    ELSE IF v.k = "Error" THEN ErrorOf("other")
    ELSE IF v.k = "array"
    THEN Arr([i \in 1..Len(v.a) |-> Revalue(v.a[i])])
    ELSE IF v.k = "object"
    THEN Obj([i \in 1..Len(v.p) |-> P(v.p[i].key, Revalue(v.p[i].val))])
    ELSE v

\* An earlier createShape(obj).
Warm(obj) ==
    /\ last.op \in {"init", "warm"}
    /\ shapeCacheState.accessCounter < MaxAccess
    /\ \E r \in {createShape(Manager, obj)} :
           /\ SetManager(r.m)
           /\ last' = CodecCall("warm", obj, r.shape, r.returns)
    /\ UNCHANGED <<GLOBAL_KEY_MAP, store, useOrder>>

\* createShape(v) after the earlier calls.
CreateShapeWarm(v) ==
    /\ last.op \in {"init", "warm"}
    /\ CreateShape(v)

\* createStructureDefinition(v), extractValues(v) and reconstructObject of
\* the two, on an unused shape cache.
OrderTrip(v) ==
    /\ shapeCacheState.accessCounter = 0
    /\ \E structureDef \in {createStructureDefinition(Manager, v)} :
       \E values \in {extractValues(v)} :
           /\ SetManager(structureDef.m)
           /\ last' = CodecCall(
                  "orderTrip", v,
                  [values |-> values, shape |-> structureDef.shape,
                   rebuilt |-> reconstructObject(values, structureDef.shape)],
                  structureDef.returns)
    /\ UNCHANGED <<GLOBAL_KEY_MAP, store, useOrder>>

\* createShape and createShapeOptimized of v and of a value that differs
\* from v in its leaf values only, each call made on the shape cache as it
\* is before the step.
ShapeOfTwo(v) ==
    /\ last.op \in {"init", "warm"}
    /\ shapeCacheState.accessCounter < MaxAccess
    /\ \E first \in {createShape(Manager, v)} :
       \E second \in {createShape(Manager, Revalue(v))} :
       \E firstOptimized \in {createShapeOptimized(Manager, v)} :
       \E secondOptimized \in {createShapeOptimized(Manager, Revalue(v))} :
           /\ SetManager(first.m)
           /\ last' = CodecCall(
                  "shapeOfTwo", v,
                  [first |-> first.shape, second |-> second.shape,
                   firstOptimized |-> firstOptimized.shape,
                   secondOptimized |-> secondOptimized.shape],
                  /\ first.returns /\ second.returns
                  /\ firstOptimized.returns /\ secondOptimized.returns)
    /\ UNCHANGED <<GLOBAL_KEY_MAP, store, useOrder>>

NextShapes ==
    \/ \E obj \in WarmSamples : Warm(obj)
    \/ \E v \in ShapeSamples \cup {NestedAYZ} : CreateShapeWarm(v)
    \/ \E v \in ShapeSamples : OrderTrip(v)
    \/ \E v \in ShapeSamples \cup {NestedAYZ} : ShapeOfTwo(v)

SpecShapes == Init /\ [][NextShapes]_vars

-----------------------------------------------------------------------------
(* SpecRich: processForSerialization applied to Date, Map, Set and Error   *)
(* values and processForDeserialization applied to what it returned, and   *)
(* to objects tagged by hand.                                              *)

\* Map keys, Map values and Set elements.
EntryKeys == {Str("k"), Num(1), DateOf(5)}
EntryValues == {Num(1), Str("v"), DateOf(7)}
Elements == {Num(1), Str("s"), Null}

RichDates == {DateOf(t) : t \in 0..MaxTime}

RichMaps ==
    {MapOf(<<>>)}
    \cup {MapOf(<<Arr(<<k, v>>)>>) : k \in EntryKeys, v \in EntryValues}
    \cup {MapOf(<<Arr(<<ks[1], v>>), Arr(<<ks[2], Num(2)>>)>>) :
              ks \in DistinctTuples(EntryKeys, 2), v \in EntryValues}

RichSets ==
    {SetOf(<<>>)}
    \cup {SetOf(es) : es \in DistinctTuples(Elements, 1)}
    \cup {SetOf(es) : es \in DistinctTuples(Elements, 2)}
    \cup {SetOf(es) : es \in DistinctTuples(Elements, 3)}

\* new Error(message), new TypeError(message), and the same with the stack
\* deleted.
RichErrors ==
    {ErrorWith(message, Str(name), stack) :
         message \in {"", "x", "boom"}, name \in {"Error", "TypeError"},
         stack \in {Str("stack"), Undefined}}

RichSamples == RichDates \cup RichMaps \cup RichSets \cup RichErrors

\* The __type and value fields of the objects tagged by hand.
Markers == {Str("Date"), Str("Map"), Str("Set"), Str("Error"), Str("RegExp"),
            Str("date"), Str(""), Num(1)}
Payloads == {Num(1), Str("s"), Null, Arr(<<Num(1)>>),
             ObjFrom(<<P("a", Num(1))>>), Tagged("Date", IsoString(3)),
             Arr(<<Tagged("Set", Arr(<<Num(1)>>))>>)}

\* { __type: marker, value: payload }, { __type: marker } and
\* { __type: marker, value: payload, extra: 1 }
TaggedObjects ==
    {ObjFrom(<<P("__type", marker), P("value", payload)>>) :
         marker \in Markers, payload \in Payloads}
    \cup {ObjFrom(<<P("__type", marker)>>) : marker \in Markers}
    \cup {ObjFrom(<<P("__type", marker), P("value", payload),
                    P("extra", Num(1))>>) :
              marker \in Markers, payload \in {Num(1), Null}}

RichStep(op, arg, ret) ==
    /\ last' = CodecCall(op, arg, ret, TRUE)
    /\ UNCHANGED <<cacheConfig, shapeCacheState, mapKeyOrderCache,
                   mapKeyOrderCacheSize, GLOBAL_KEY_MAP, store, useOrder>>

\* processForSerialization(leaf)
Serialize(leaf) ==
    /\ last.op = "init"
    /\ RichStep("serialize", leaf, processForSerialization(leaf))

\* processForDeserialization of what processForSerialization returned.
Deserialize ==
    /\ last.op = "serialize"
    /\ RichStep("deserialize", last.arg, processForDeserialization(last.ret))

\* processForDeserialization(obj), obj tagged by hand.
DeserializeTagged(obj) ==
    /\ last.op = "init"
    /\ RichStep("deserializeTagged", obj, processForDeserialization(obj))

NextRich ==
    \/ \E leaf \in RichSamples : Serialize(leaf)
    \/ Deserialize
    \/ \E obj \in TaggedObjects : DeserializeTagged(obj)

SpecRich == Init /\ [][NextRich]_vars

\* The two objects have the same keys and, under each key, values of the
\* same kind.
SameKeysAndKinds(first, second) ==
    /\ Range(Keys(first)) = Range(Keys(second))
    /\ \A key \in Range(Keys(first)) : Get(first, key).k = Get(second, key).k

\* C19: with maxShapeCacheSize >= 1, createShape on an object and then on
\* a second object with the same keys and value kinds returns both times,
\* with shapes of equal _signature, and the second call raises the size of
\* the shape cache by at most 1.
C19_ShapeCacheReuse ==
    (/\ last.op = "createShapeTwice"
     /\ cacheConfig.maxShapeCacheSize >= 1
     /\ SameKeysAndKinds(last.arg[1], last.arg[2])) =>
        /\ last.returns
        /\ HasProp(last.ret.first, "_signature")
        /\ HasProp(last.ret.second, "_signature")
        /\ Get(last.ret.first, "_signature") = Get(last.ret.second, "_signature")
        /\ last.ret.sizeAfter <= last.ret.sizeBetween + 1

\* The second call on a full cache of bound 1 that held another shape.
C19_Witness ==
    /\ last.op = "createShapeTwice"
    /\ cacheConfig.maxShapeCacheSize = 1
    /\ last.before.keys = {"b:number"}
    /\ last.arg[1] = NestedAX /\ last.arg[2] = NestedAYZ
    /\ last.returns
    /\ Get(last.ret.second, "_signature") = Str("a:object")
    /\ last.ret.sizeAfter = 1

\* { __type: marker, value: ... } and nothing else.
IsTagged(obj, marker) ==
    /\ obj.k = "object"
    /\ Range(Keys(obj)) = {"__type", "value"}
    /\ Get(obj, "__type") = Str(marker)

C22_UnknownTagLenient ==
    (/\ last.op = "deserializeTagged"
     /\ Get(last.arg, "__type").k = "string"
     /\ Get(last.arg, "__type").s \notin {"Date", "Map", "Set", "Error"}) =>
        /\ last.returns
        /\ last.ret = Get(last.arg, "value")

\* An unknown tag whose value is itself a tagged Date: returned untouched.
C22_Witness ==
    /\ last.op = "deserializeTagged"
    /\ Get(last.arg, "__type") = Str("RegExp")
    /\ Get(last.arg, "value") = Tagged("Date", IsoString(3))
    /\ last.ret = Tagged("Date", IsoString(3))

C24_SetExistingNeverEvicts ==
    [][/\ (last'.op = "lruSet" /\ last'.arg \in DOMAIN store.cache) =>
           /\ last'.returns
           /\ DOMAIN store'.cache = DOMAIN store.cache
           /\ DOMAIN store'.accessOrder = DOMAIN store.accessOrder
           /\ store'.cache[last'.arg] = last'.ret
           /\ store'.accessCounter = store.accessCounter + 1
           /\ store'.accessOrder[last'.arg] = store'.accessCounter
           /\ store'.maxSize = store.maxSize
           /\ \A k \in (DOMAIN store.cache) \ {last'.arg} :
                  /\ store'.cache[k] = store.cache[k]
                  /\ store'.accessOrder[k] = store.accessOrder[k]
       /\ (/\ last.op = "lruSet" /\ last.returns
           /\ last.arg \in last.before.keys
           /\ last'.op = "lruGet" /\ last'.arg = last.arg) =>
              last'.ret = last.ret]_vars

\* A key of a full store of two set again.
C24_Witness ==
    /\ last.op = "lruSet"
    /\ last.returns
    /\ store.maxSize = 2
    /\ last.before.keys = {"A", "B"}
    /\ last.arg = "A"
    /\ DOMAIN store.cache = {"A", "B"}
    /\ store.cache["A"] = last.ret
    /\ useOrder = <<"B", "A">>

\* C25: configureProtocolCaching(config) gives every option present in
\* config the value config has for it and leaves every other option as it
\* was, and getProtocolCacheStats().config is the configuration so merged,
\* after every configure call of a run.
C25_PartialReconfiguration ==
    [][last'.op = "configure" =>
          /\ DOMAIN cacheConfig' = DOMAIN DEFAULT_CACHE_CONFIG
          /\ \A opt \in DOMAIN DEFAULT_CACHE_CONFIG :
                 /\ cacheConfig'[opt] = IF opt \in DOMAIN last'.arg
                                        THEN last'.arg[opt]
                                        ELSE cacheConfig[opt]
                 /\ getProtocolCacheStats(Manager).config[opt]' =
                        IF opt \in DOMAIN last'.arg
                        THEN last'.arg[opt]
                        ELSE getProtocolCacheStats(Manager).config[opt]]_vars

\* A threshold set after a bound: the bound set earlier is kept.
C25_Witness ==
    /\ last.op = "configure"
    /\ DOMAIN last.arg = {"autoEvictionThreshold"}
    /\ cacheConfig.autoEvictionThreshold = last.arg.autoEvictionThreshold
    /\ cacheConfig.maxShapeCacheSize = 2
    /\ cacheConfig.maxKeyOrderCacheSize = 1
    /\ getProtocolCacheStats(Manager).config = cacheConfig

\* Every array of alike objects in value v, at any depth, has a
\* homogeneous-array node at its place in the shape.
RECURSIVE HomogeneousEverywhere(_, _)
HomogeneousEverywhere(v, shape) ==
    IF v.k = "array"
    THEN IF AllAlike(v)
         THEN /\ IsType(shape, "homogeneous-array")
              /\ HomogeneousEverywhere(v.a[1], Get(shape, "itemShape"))
         ELSE \A i \in 1..Len(v.a) :
                  /\ i <= Len(Get(shape, "itemShapes").a)
                  /\ HomogeneousEverywhere(v.a[i], Get(shape, "itemShapes").a[i])
    ELSE IF v.k = "object"
    THEN \A key \in Range(Keys(v)) :
             HomogeneousEverywhere(Get(v, key), Get(shape, key))
    ELSE TRUE

\* C26: in the result of createShapeOptimized every array of the value whose
\* elements are all non-array objects of one shallow signature, whether it
\* is the value itself, a field of an object or an element of an array, is
\* a homogeneous-array node.
C26_HomogeneityAtEveryDepth ==
    last.op = "shapeOptimized" =>
        last.returns /\ HomogeneousEverywhere(last.arg, last.ret)

\* The shape node createShape gives a value of v's kind, as far as its type
\* goes.
FitsKind(shape, v) ==
    IF v.k = "null" THEN shape = TypeShape("null")
    ELSE IF TypeOf(v) # "object" THEN shape = TypeShape(TypeOf(v))
    ELSE IF v.k \in RichKinds THEN shape = TypeShape("special_value")
    ELSE IF v.k = "array" THEN IsType(shape, "array")
    ELSE IsType(shape, "object")

\* C27: the node createShape returns for a plain object has type "object"
\* and the object's signature as _signature, and holds under each field
\* name of the object the shape of that field's value, whatever the names.
C27_ClassifiedByValue ==
    (last.op = "createShape" /\ last.arg.k = "object") =>
        /\ last.returns
        /\ IsType(last.ret, "object")
        /\ Get(last.ret, "_signature") = Str(createShapeSignature(last.arg))
        /\ \A key \in Range(Keys(last.arg)) :
               /\ HasProp(last.ret, key)
               /\ FitsKind(Get(last.ret, key), Get(last.arg, key))

\* C28: createShape(v) returns the shape it returns on an empty shape
\* cache, whatever earlier calls have put in the cache.
C28_DeterminedByArgument ==
    last.op = "createShape" =>
        /\ last.returns
        /\ last.ret = createShapeIn(
                          last.arg,
                          createLRUCache(DEFAULT_CACHE_CONFIG.maxShapeCacheSize)
                      ).shape

\* The values of an object's fields in ascending key order.
FieldsInKeyOrder(v) ==
    [i \in 1..Len(v.p) |-> Get(v, SortKeys(Keys(v))[i])]

\* C29: for a plain object, whatever the insertion order of its keys,
\* extractValues emits the fields' leaves in ascending key order,
\* reconstructObject lays out the fields of createShape's node in that
\* order, and reconstructObject of the two gives back the object.
C29_FieldOrderAgreement ==
    (last.op = "orderTrip" /\ last.arg.k = "object") =>
        /\ last.returns
        /\ (\A i \in 1..Len(last.arg.p) :
                last.arg.p[i].val.k \in {"number", "string"}) =>
               last.ret.values = FieldsInKeyOrder(last.arg)
        /\ StandardLayout(last.ret.shape) = SortKeys(Keys(last.arg))
        /\ DeepEqual(last.ret.rebuilt, last.arg)

\* C30: createShape gives two values that differ in their leaf values only
\* the same shape, and so does createShapeOptimized, both calls of a pair
\* made on the same shape cache.
C30_ShapesHoldNoValues ==
    last.op = "shapeOfTwo" =>
        /\ last.returns
        /\ last.ret.first = last.ret.second
        /\ last.ret.firstOptimized = last.ret.secondOptimized

\* An array of two objects and an object of a string and a nested object,
\* on a cache holding another shape.
C30_Witness ==
    /\ last.op = "shapeOfTwo"
    /\ last.before.keys # {}
    /\ \/ /\ last.arg = ListOfPairs
          /\ IsType(last.ret.secondOptimized, "homogeneous-array")
          /\ IsType(last.ret.second, "array")
       \/ /\ last.arg.k = "object"
          /\ Get(last.arg, "a") = Str("s")
          /\ Get(last.arg, "b") = Num(2)
          /\ Get(last.ret.second, "a") = TypeShape("string")

\* C31: for every shape tree, a homogeneous-array node inside the item
\* shape of another included, and one value per leaf slot,
\* reconstructObjectCompiled returns a value deeply equal to
\* reconstructObject's.
C31_CompiledEqualsBaseline ==
    last.op = "compiled" =>
        last.returns /\ DeepEqual(last.ret, BaselineOfLast)

-----------------------------------------------------------------------------
(* SpecCaches: both module-level caches under every interleaving of the    *)
(* exported cache operations, with the key order bound, the shape bound    *)
(* and the eviction threshold reconfigured.                                *)

KeyNames == {"a", "b", "c"}

CachesConfigs ==
    {[maxKeyOrderCacheSize |-> k] : k \in {0, 1, 2}}
    \cup {[autoEvictionThreshold |-> 50], [maxShapeCacheSize |-> 2]}

CachesSamples == {FlatA, NestedAX}

\* for (let i = 0; i < n; i++) createStructureDefinition(data)
RECURSIVE CreateTimes(_, _, _)
CreateTimes(r, data, n) ==
    IF n = 0 \/ ~r.returns THEN r
    ELSE CreateTimes(createStructureDefinition(r.m, data), data, n - 1)

\* The loop above, started right after resetProtocolState().
CreateRepeatedly(data, n) ==
    /\ last.op = "reset"
    /\ \E r \in {CreateTimes([shape |-> Undefined, returns |-> TRUE, m |-> Manager],
                              data, n)} :
           /\ SetManager(r.m)
           /\ last' = [Call("repeat", n, r.returns) EXCEPT !.arg = data]
    /\ UNCHANGED <<GLOBAL_KEY_MAP, store, useOrder>>

\* createShape(obj), the argument recorded.
CreateShapeOf(obj) ==
    /\ shapeCacheState.accessCounter < MaxAccess
    /\ \E r \in {createShape(Manager, obj)} :
           /\ SetManager(r.m)
           /\ last' = [Call("createShape", 0, r.returns) EXCEPT !.arg = obj]
    /\ UNCHANGED <<GLOBAL_KEY_MAP, store, useOrder>>

NextCaches ==
    \/ \E data \in CachesSamples : CreateShapeOf(data)
    \/ \E data \in CachesSamples, n \in 1..MaxAccess : CreateRepeatedly(data, n)
    \/ \E config \in CachesConfigs : ConfigureProtocolCaching(config)
    \/ EvictOldCacheEntries
    \/ ResetProtocolState
    \/ \E key \in KeyNames : RegisterKey(key)
    \/ GetMapKeyOrder

SpecCaches == Init /\ [][NextCaches]_vars

\* C32: in every state reachable by getMapKeyOrder, growth of the registry,
\* configureProtocolCaching, evictOldCacheEntries and resetProtocolState, the
\* key order cache is either absent with recorded size 0, or present with the
\* recorded size equal to its number of entries and at most
\* maxKeyOrderCacheSize.
C32_KeyOrderCacheInvariant ==
    IF mapKeyOrderCache.null
    THEN mapKeyOrderCacheSize = 0
    ELSE /\ mapKeyOrderCacheSize = Cardinality(DOMAIN mapKeyOrderCache.map)
         /\ mapKeyOrderCacheSize <= cacheConfig.maxKeyOrderCacheSize

\* A cache of two entries was discarded by a reconfiguration to a bound of one.
C32_Witness ==
    /\ last.op = "configure"
    /\ last.before.keySize = 2
    /\ cacheConfig.maxKeyOrderCacheSize = 1
    /\ mapKeyOrderCache.null
    /\ mapKeyOrderCacheSize = 0

\* The first n keys of the registry mapped to 0, 1, 2, ... in insertion order.
FirstRanked(registry, n) ==
    [key \in {registry[i] : i \in 1..n} |->
        (CHOOSE i \in 1..n : registry[i] = key) - 1]

\* C33: getMapKeyOrder rebuilds the cache exactly when it is absent, or the
\* registry's size differs from the recorded size, or exceeds
\* maxKeyOrderCacheSize; the rebuilt cache maps the first min(registry size,
\* maxKeyOrderCacheSize) registry keys to ranks 0, 1, 2, ...; otherwise no
\* cache state changes.
C33_RebuildRule ==
    [][last'.op = "keyOrder" =>
        LET size == Len(GLOBAL_KEY_MAP)
            kept == IF size < cacheConfig.maxKeyOrderCacheSize
                    THEN size ELSE cacheConfig.maxKeyOrderCacheSize
        IN  IF \/ mapKeyOrderCache.null
               \/ size # mapKeyOrderCacheSize
               \/ size > cacheConfig.maxKeyOrderCacheSize
            THEN /\ ~mapKeyOrderCache'.null
                 /\ mapKeyOrderCache'.map = FirstRanked(GLOBAL_KEY_MAP, kept)
                 /\ mapKeyOrderCacheSize' = kept
            ELSE /\ mapKeyOrderCache' = mapKeyOrderCache
                 /\ mapKeyOrderCacheSize' = mapKeyOrderCacheSize]_vars

\* A present cache of one entry was rebuilt for a registry of two keys, the
\* second key ranked 1.
C33_Witness ==
    /\ last.op = "keyOrder"
    /\ last.before.keySize = 1
    /\ Len(GLOBAL_KEY_MAP) = 2
    /\ mapKeyOrderCacheSize = 2
    /\ mapKeyOrderCache.map[GLOBAL_KEY_MAP[2]] = 1

\* The field names of every object node of a shape.
AllFieldNames(shape) ==
    UNION {Range(FieldNames(NodesOf(shape, 0)[i].node)) :
              i \in {j \in 1..Len(NodesOf(shape, 0)) :
                         IsType(NodesOf(shape, 0)[j].node, "object")}}

\* C34: when the rank table holds none of an object's fields (an empty table
\* included), reconstructObjectGenome assigns the fields in ascending key
\* order, so that its result is deeply equal to reconstructObject's.
C34_UnrankedFallBackToKeyOrder ==
    (/\ last.op = "genome"
     /\ AllFieldNames(last.arg.shape) \cap Range(GLOBAL_KEY_MAP) = {})
        => DeepEqual(last.ret, BaselineOfLast)

-----------------------------------------------------------------------------
(* Properties of lruGetEntries and lruMigrate (SpecMigrate).               *)

\* `entries` lists every entry of the state once, the most recent first.
ListsEveryEntry(entries, state) ==
    /\ Len(entries) = Cardinality(DOMAIN state.cache)
    /\ {entries[i].key : i \in 1..Len(entries)} = DOMAIN state.cache
    /\ \A i \in 1..Len(entries) :
           /\ entries[i].value = state.cache[entries[i].key]
           /\ entries[i].access = state.accessOrder[entries[i].key]
    /\ \A i \in 1..(Len(entries) - 1) : entries[i].access > entries[i + 1].access

\* C35: lruGetEntries returns every cached entry exactly once, in strictly
\* descending recency; lruMigrate(entries, n) for n >= 1 yields a store of
\* maxSize n holding exactly the first min(number of entries, n) of the
\* entries, with their values.
C35_EntriesAndMigration ==
    [][/\ ListsEveryEntry(lruGetEntries(store'), store')
       /\ (last'.op = "lruMigrate" /\ last'.arg >= 1) =>
              LET entries == lruGetEntries(store)
                  kept == IF Len(entries) < last'.arg
                          THEN Len(entries) ELSE last'.arg
              IN  /\ store'.maxSize = last'.arg
                  /\ DOMAIN store'.cache = {entries[i].key : i \in 1..kept}
                  /\ \A i \in 1..kept :
                         store'.cache[entries[i].key] = entries[i].value]_vars

\* A store of two entries migrated to a bound of one kept the entry read last.
C35_Witness ==
    /\ last.op = "lruMigrate"
    /\ last.arg = 1
    /\ Cardinality(last.before.keys) = 2
    /\ DOMAIN store.cache = {useOrder[Len(useOrder)]}
    /\ store.maxSize = 1

-----------------------------------------------------------------------------
(* Properties of the shape cache's access counter (SpecCaches).            *)

\* One step of the counter: it does not decrease unless the step is one of
\* `restarts`; a createShape call on an object whose signature is cached adds
\* exactly 1, one that misses adds at least the 1 of its insert; n calls on
\* one object after a reset leave it at n or more.
CounterStep(restarts) ==
    /\ last'.op \notin restarts =>
           shapeCacheState'.accessCounter >= shapeCacheState.accessCounter
    /\ (last'.op = "createShape" /\ last'.returns) =>
           IF createShapeSignature(last'.arg) \in DOMAIN shapeCacheState.cache
           THEN shapeCacheState'.accessCounter = shapeCacheState.accessCounter + 1
           ELSE shapeCacheState'.accessCounter >= shapeCacheState.accessCounter + 1
    /\ (last'.op = "repeat" /\ last'.returns) =>
           shapeCacheState'.accessCounter >= last'.ret

C37_EvictionBelowThresholdsIsNoOp ==
    [][(/\ last'.op = "evict"
        /\ cacheConfig.maxShapeCacheSize >= 1
        /\ ~AtThreshold
        /\ mapKeyOrderCacheSize * 100
               < cacheConfig.maxKeyOrderCacheSize * cacheConfig.autoEvictionThreshold)
          => /\ last'.ret = 0
             /\ shapeCacheState' = shapeCacheState
             /\ mapKeyOrderCache' = mapKeyOrderCache
             /\ mapKeyOrderCacheSize' = mapKeyOrderCacheSize]_vars

\* An eviction call that found a shape cached and a key ranked, both caches
\* below their thresholds, and evicted nothing.
C37_Witness ==
    /\ last.op = "evict"
    /\ last.ret = 0
    /\ last.before.keys # {}
    /\ DOMAIN shapeCacheState.cache = last.before.keys
    /\ last.before.keySize >= 1
    /\ ~mapKeyOrderCache.null
    /\ mapKeyOrderCacheSize = last.before.keySize

-----------------------------------------------------------------------------
(* Properties of unmarshalling objects that only look tagged (SpecRich).   *)

\* The wire form of a marshalled leaf: exactly the fields __type and value.
WireForm(obj) == Range(Keys(obj)) = {"__type", "value"}

\* C38: a plain object that carries a string-valued field named __type among
\* its own data fields, and has not the form processForSerialization writes,
\* is returned by processForDeserialization with all of its fields intact.
C38_DataFieldNamedTypeKept ==
    (/\ last.op = "deserializeTagged"
     /\ Get(last.arg, "__type").k = "string"
     /\ ~WireForm(last.arg))
        => /\ last.ret.k = "object"
           /\ Range(Keys(last.ret)) = Range(Keys(last.arg))
           /\ \A key \in Range(Keys(last.arg)) :
                  DeepEqual(Get(last.ret, key),
                            processForDeserialization(Get(last.arg, key)))

-----------------------------------------------------------------------------
(* SpecStore: one LRU store under lruSet, lruGet, lruMigrate and lruClear. *)

LruClear ==
    /\ store' = lruClear(store)
    /\ useOrder' = <<>>
    /\ last' = StoreCall("lruClear", 0, 0, TRUE)
    /\ ManagerUnchanged

NextStore ==
    \/ \E key \in StoreKeys, value \in StoreValues : LruSet(key, value)
    \/ \E key \in StoreKeys : LruGet(key)
    \/ \E maxSize \in StoreSizes : LruMigrate(maxSize)
    \/ LruClear

SpecStore == InitLRU /\ [][NextStore]_vars

\* C39: in every state reachable from createLRUCache by lruSet, lruGet,
\* lruClear and lruMigrate, the cache and accessOrder maps have the same
\* keys, every recency value lies between 1 and accessCounter, and no two
\* keys share a recency value.
C39_LruStateInvariant ==
    /\ DOMAIN store.cache = DOMAIN store.accessOrder
    /\ \A key \in DOMAIN store.accessOrder :
           /\ store.accessOrder[key] >= 1
           /\ store.accessOrder[key] <= store.accessCounter
    /\ \A k1, k2 \in DOMAIN store.accessOrder :
           k1 # k2 => store.accessOrder[k1] # store.accessOrder[k2]

\* A store of two entries was migrated whole: the counter restarted, and the
\* two entries have the recency values 1 and 2.
C39_Witness ==
    /\ last.op = "lruMigrate"
    /\ Cardinality(last.before.keys) = 2
    /\ DOMAIN store.cache = last.before.keys
    /\ store.accessCounter = 2
    /\ {store.accessOrder[key] : key \in DOMAIN store.accessOrder} = {1, 2}

====
